---- MODULE Spec2Model ----
(***************************************************************************)
(* streflop golden files: the recorder (arithmeticTest.cpp: writeFileHeader,*)
(* writeFloat, doTest) and the comparator (compareFloats.cpp:               *)
(* readBinaryFile, ulpDiff, compareFloats, compareFiles).                   *)
(*                                                                          *)
(* A file is a sequence of bytes (0..255).  A floating-point value is its   *)
(* bit pattern, written most-significant byte first ("pattern"); what a     *)
(* host keeps in memory is the pattern in that host's byte order.  Numbers  *)
(* wider than 31 bits never become integers: they stay byte sequences.      *)
(***************************************************************************)
EXTENDS Integers, Sequences, FiniteSets, TLC

VARIABLES
    \* ---- codec: one file written on both kinds of host, then read back
    ctype,        \* FloatType of the template instance
    sizeofExt,    \* sizeof(streflop::Extended) of the build
    cpc,          \* "open" | "payload" | "closed" | "read"
    hdrCount,     \* elementCount passed to writeFileHeader
    hdrFlags,     \* extraFlags passed to writeFileHeader
    written,      \* patterns handed to writeFloat so far
    of,           \* of[h]: bytes of the ofstream on a host of byte order h
    rd,           \* rd[w][r]: readBinaryFile on host r of the file written on host w
    \* ---- recorder: one run of doTest<FloatType>
    rtype,        \* FloatType of the run
    rpc,          \* the statement doTest is at
    ri,           \* loop counter i of the loop doTest is in
    rfile,        \* the three ofstreams: header written, elements written, closed
    lastFPCR, lastMXCSR,   \* the locals holding the last values getFPCR and getMXCSR gave
    \* ---- comparator: one call of compareFiles<T>(filenames, type, maxUlpDiff)
    host,         \* byte order of the host compareFiles runs on
    category,     \* "simple" (T = float) or "double" (T = double)
    filenames,    \* the files behind the names passed in, in order
    maxUlpDiff,   \* the tolerance passed in
    mpc,          \* "start" | "load" | "log" | "compare" | "summary" | "done" | "skipped" | "crashed"
    fk,           \* position in filenames of the next file to load (from 1)
    allData,      \* the data sets read so far
    headers,      \* the headers read so far
    ci, cj,       \* element index i and data set index j of the comparison loops (from 1)
    exactMatches, differences,   \* the counters, one per data set
    log,          \* difference records of the current element, not yet flushed
    logFile,      \* difference records written to the log file
    printed,      \* the "File: ..., Data size: ..." lines
    summary,      \* the rows of the summary table
    \* ---- reader: one call of readBinaryFile(filename)
    rdHost,       \* byte order of the host readBinaryFile runs on
    rdFile,       \* the file behind the name passed in
    rdpc,         \* "call" | "returned" | "terminated"
    rdData,       \* the vector returned
    \* ---- comparator: one call of compareAllTypes(basePaths)
    disk,         \* disk[t][j]: the file named basePaths[j] + "_" + types[t] + ".bin"
    ti,           \* index i of the loop over types (from 1)
    apc,          \* "collect" | "compareFiles" | "done" | "crashed"
    out,          \* per type visited, what was printed about it
    \* ---- FPU control: the same calls made on each backend of a set
    fpu,          \* fpu[b]: the control registers of backend b
    noDenormals,  \* STREFLOP_NO_DENORMALS is defined in the build
    FE_DFL_ENV,   \* FE_DFL_ENV[b]: the default environment of backend b
    envp,         \* envp[b]: the caller's fenv_t
    atCapture,    \* fpu as it was when fegetenv filled envp
    call          \* the last call: its name and argument, what it returned on each
                  \* backend, and whether it changed the registers there

codecVars == <<ctype, sizeofExt, cpc, hdrCount, hdrFlags, written, of, rd>>
recVars == <<rtype, rpc, ri, rfile, lastFPCR, lastMXCSR>>
cmpVars == <<host, category, filenames, maxUlpDiff, mpc, fk, allData, headers, ci, cj,
             exactMatches, differences, log, logFile, printed, summary>>
rdrVars == <<rdHost, rdFile, rdpc, rdData>>
allVars == <<disk, ti, apc, out>>
fpuVars == <<fpu, noDenormals, FE_DFL_ENV, envp, atCapture, call>>
vars == <<codecVars, recVars, cmpVars, rdrVars, allVars, fpuVars>>

----------------------------------------------------------------------------
(* Bounds *)

\* longest value sequence written to one file of the codec specification
MaxLen == 2

\* most file names passed to one call of compareFiles
MaxFiles == 3

----------------------------------------------------------------------------
(* Hosts, types, bytes *)

Hosts == {"little", "big"}
FloatTypes == {"Simple", "Double", "Extended"}

Reverse(s) == [i \in 1..Len(s) |-> s[Len(s) + 1 - i]]

Zeros(n) == [i \in 1..n |-> 0]

\* the four bytes of a uint32_t as a host of byte order h keeps them in memory
U32Bytes(h, v) ==
    LET le == << v % 256, (v \div 256) % 256, (v \div 65536) % 256, (v \div 16777216) % 256 >>
    IN  IF h = "little" THEN le ELSE Reverse(le)

\* the uint32_t a host of byte order h sees in four bytes of memory
U32Value(h, b) ==
    LET le == IF h = "little" THEN b ELSE Reverse(b)
    IN  le[1] + 256 * le[2] + 65536 * le[3] + 16777216 * le[4]

\* "SREF"
Magic == << 83, 82, 69, 70 >>

\* sizeof(FileHeader), packed
HeaderSize == 24

\* sizeof(FloatType)
SizeOf(t, ext) == IF t = "Simple" THEN 4 ELSE IF t = "Double" THEN 8 ELSE ext

\* number of bytes of the value proper (IEEE single, double, x87 extended)
ValueWidth(t) == IF t = "Simple" THEN 4 ELSE IF t = "Double" THEN 8 ELSE 10

\* the object representation of a value of type t with bit pattern p on host h:
\* the value bytes in host order, then the padding of the type
InMemory(h, t, ext, p) ==
    (IF h = "little" THEN Reverse(p) ELSE p) \o Zeros(SizeOf(t, ext) - ValueWidth(t))

----------------------------------------------------------------------------
(* Bit patterns the model draws from, most significant byte first *)

Patterns4 ==
    { << 0, 0, 0, 0 >>,            \* +0
      << 128, 0, 0, 0 >>,          \* -0
      << 0, 0, 0, 1 >>,            \* smallest denormal
      << 63, 128, 0, 0 >>,         \* 1.0f
      << 63, 128, 0, 1 >>,         \* 1.0f + 1 ulp
      << 63, 128, 0, 5 >>,         \* 1.0f + 5 ulp
      << 191, 128, 0, 0 >>,        \* -1.0f
      << 127, 128, 0, 0 >>,        \* +infinity
      << 255, 128, 0, 0 >>,        \* -infinity
      << 127, 192, 0, 0 >>,        \* quiet NaN
      << 255, 128, 0, 1 >> }       \* negative NaN with a payload

Patterns8 ==
    { << 0, 0, 0, 0, 0, 0, 0, 0 >>,          \* +0
      << 128, 0, 0, 0, 0, 0, 0, 0 >>,        \* -0
      << 0, 0, 0, 0, 0, 0, 0, 1 >>,          \* smallest denormal
      << 63, 240, 0, 0, 0, 0, 0, 0 >>,       \* 1.0   0x3FF0000000000000
      << 63, 240, 0, 0, 0, 0, 0, 1 >>,       \* 0x3FF0000000000001
      << 63, 240, 0, 0, 0, 0, 0, 5 >>,       \* 0x3FF0000000000005
      << 63, 240, 0, 0, 0, 1, 0, 0 >>,       \* 1.0 + 65536 ulp
      << 191, 240, 0, 0, 0, 0, 0, 0 >>,      \* -1.0
      << 127, 240, 0, 0, 0, 0, 0, 0 >>,      \* +infinity
      << 255, 240, 0, 0, 0, 0, 0, 0 >>,      \* -infinity
      << 127, 248, 0, 0, 0, 0, 0, 0 >>,      \* quiet NaN
      << 255, 240, 0, 0, 0, 0, 0, 1 >> }     \* negative NaN with a payload

Patterns10 ==
    { << 63, 255, 128, 0, 0, 0, 0, 0, 0, 0 >>,    \* 1.0L
      << 127, 255, 128, 0, 0, 0, 0, 0, 0, 0 >>,   \* +infinity
      << 127, 255, 192, 0, 0, 0, 0, 0, 0, 1 >> }  \* NaN with a payload

\* the patterns the codec specification writes: a few of each width
CodecPatterns(t) ==
    IF t = "Simple"
    THEN { << 128, 0, 0, 0 >>, << 0, 0, 0, 1 >>, << 63, 128, 0, 1 >>,
           << 127, 128, 0, 0 >>, << 255, 128, 0, 1 >> }
    ELSE IF t = "Double"
    THEN { << 128, 0, 0, 0, 0, 0, 0, 0 >>, << 0, 0, 0, 0, 0, 0, 0, 1 >>,
           << 63, 240, 0, 0, 0, 0, 0, 1 >>, << 255, 240, 0, 0, 0, 0, 0, 0 >>,
           << 127, 248, 0, 0, 0, 0, 0, 0 >> }
    ELSE Patterns10

----------------------------------------------------------------------------
(* arithmeticTest.cpp: writeFileHeader, writeFloat *)

\* dataType of the header
DataTypeOf(t) == IF t = "Simple" THEN 0 ELSE IF t = "Double" THEN 1 ELSE 2

\* writeFileHeader with the struct not packed to 24 bytes by a missing field:
\* elementCount written where dataSize belongs, dataSize left out
writeFileHeader_FieldsShifted(h, t, ext, elementCount, extraFlags) ==
    Magic \o U32Bytes(h, 1) \o U32Bytes(h, DataTypeOf(t)) \o U32Bytes(h, elementCount)
          \o U32Bytes(h, extraFlags) \o U32Bytes(h, 0)

\* the bytes writeFileHeader<FloatType> puts on the stream on host h:
\* the FileHeader struct as it lies in memory
writeFileHeader(h, t, ext, elementCount, extraFlags) ==
    Magic \o U32Bytes(h, 1) \o U32Bytes(h, DataTypeOf(t)) \o U32Bytes(h, SizeOf(t, ext))
          \o U32Bytes(h, elementCount) \o U32Bytes(h, extraFlags)

\* nbytes of writeFloat
NBytes(t, ext) == IF t = "Extended" THEN 10 ELSE SizeOf(t, ext)

\* the bytes writeFloat puts on the stream on host h for the object f
writeFloat(h, t, ext, f) ==
    LET nbytes == NBytes(t, ext)
    IN  IF h = "little"
        THEN [i \in 1..nbytes |-> f[nbytes + 1 - i]]
        ELSE SubSeq(f, 1, nbytes)

----------------------------------------------------------------------------
(* compareFloats.cpp: readBinaryFile *)

FloatData(data, size) == [rawData |-> data, dataSize |-> size]

\* the loop of readBinaryFile without data.clear() on a failed read: the
\* elements read so far are returned
RECURSIVE ReadLoop_KeepsPrefix(_, _, _, _, _, _, _)
ReadLoop_KeepsPrefix(h, file, pos, i, elementCount, dataSize, data) ==
    IF i >= elementCount THEN data
    ELSE IF pos + dataSize > Len(file) THEN data
    ELSE LET buffer == SubSeq(file, pos + 1, pos + dataSize)
             swapped == IF h = "little" THEN Reverse(buffer) ELSE buffer
         IN  ReadLoop_KeepsPrefix(h, file, pos + dataSize, i + 1, elementCount, dataSize,
                                  Append(data, [rawData |-> swapped, dataSize |-> dataSize]))

\* the loop of readBinaryFile from element i on; pos bytes are consumed
RECURSIVE ReadLoop(_, _, _, _, _, _, _)
ReadLoop(h, file, pos, i, elementCount, dataSize, data) ==
    IF i >= elementCount THEN data
    ELSE IF pos + dataSize > Len(file) THEN << >>       \* file.fail(): data.clear()
    ELSE LET buffer == SubSeq(file, pos + 1, pos + dataSize)
             swapped == IF h = "little" THEN Reverse(buffer) ELSE buffer
         IN  ReadLoop(h, file, pos + dataSize, i + 1, elementCount, dataSize,
                      Append(data, FloatData(swapped, dataSize)))

\* a file on disk: whether it can be opened, and its bytes
OnDisk(b) == [exists |-> TRUE, bytes |-> b]
Missing == [exists |-> FALSE, bytes |-> << >>]

\* readBinaryFile without the test of the magic tag
readBinaryFile_NoMagicTest(h, file) ==
    IF ~file.exists THEN << >>
    ELSE IF Len(file.bytes) < HeaderSize THEN << >>
    ELSE ReadLoop(h, file.bytes, HeaderSize, 0,
                  U32Value(h, SubSeq(file.bytes, 17, 20)),
                  U32Value(h, SubSeq(file.bytes, 13, 16)), << >>)

\* readBinaryFile on a host of byte order h.  When the file is shorter than the
\* header, file.read leaves the stream failed and part of the header unset:
\* either the magic test returns the empty vector, or elementCount is 0 and the
\* loop is skipped, or the first read of the loop fails and clears the vector;
\* the result is empty in every case.
readBinaryFile(h, file) ==
    IF ~file.exists THEN << >>
    ELSE IF Len(file.bytes) < HeaderSize THEN << >>
    ELSE IF SubSeq(file.bytes, 1, 4) # Magic THEN << >>
    ELSE ReadLoop(h, file.bytes, HeaderSize, 0,
                  U32Value(h, SubSeq(file.bytes, 17, 20)),
                  U32Value(h, SubSeq(file.bytes, 13, 16)), << >>)

\* the bit pattern of an element as host h sees it (what bytesToFloat yields)
BitsOf(h, e) == IF h = "little" THEN Reverse(e.rawData) ELSE e.rawData

----------------------------------------------------------------------------
(* The codec specification: one file, written on a little-endian and on a   *)
(* big-endian host from the same inputs, then read on both kinds of host.   *)

NoRead == [w \in Hosts |-> [r \in Hosts |-> << >>]]

\* sizeof(streflop::Extended) of the builds: 12 (ia32 long double, the
\* SoftFloat wrapper), 16 (x86-64 long double)
ExtendedSizes == {12, 16}

CodecStart ==
    /\ ctype \in FloatTypes
    /\ sizeofExt \in ExtendedSizes
    /\ cpc = "open"
    /\ hdrCount = 0
    /\ hdrFlags = 0
    /\ written = << >>
    /\ of = [h \in Hosts |-> << >>]
    /\ rd = NoRead

CodecWriteFileHeader ==
    /\ cpc = "open"
    /\ \E elementCount \in 0..MaxLen, extraFlags \in 0..2 :
         /\ of' = [h \in Hosts |->
                     of[h] \o writeFileHeader(h, ctype, sizeofExt, elementCount, extraFlags)]
         /\ hdrCount' = elementCount
         /\ hdrFlags' = extraFlags
    /\ cpc' = "payload"
    /\ UNCHANGED <<ctype, sizeofExt, written, rd>>
    /\ UNCHANGED <<recVars, cmpVars, rdrVars, allVars, fpuVars>>

CodecWriteFloat ==
    /\ cpc = "payload"
    /\ Len(written) < hdrCount
    /\ \E p \in CodecPatterns(ctype) :
         /\ of' = [h \in Hosts |->
                     of[h] \o writeFloat(h, ctype, sizeofExt, InMemory(h, ctype, sizeofExt, p))]
         /\ written' = Append(written, p)
    /\ UNCHANGED <<ctype, sizeofExt, cpc, hdrCount, hdrFlags, rd>>
    /\ UNCHANGED <<recVars, cmpVars, rdrVars, allVars, fpuVars>>

CodecClose ==
    /\ cpc = "payload"
    /\ Len(written) = hdrCount
    /\ cpc' = "closed"
    /\ UNCHANGED <<ctype, sizeofExt, hdrCount, hdrFlags, written, of, rd>>
    /\ UNCHANGED <<recVars, cmpVars, rdrVars, allVars, fpuVars>>

CodecRead ==
    /\ cpc = "closed"
    /\ rd' = [w \in Hosts |-> [r \in Hosts |-> readBinaryFile(r, OnDisk(of[w]))]]
    /\ cpc' = "read"
    /\ UNCHANGED <<ctype, sizeofExt, hdrCount, hdrFlags, written, of>>
    /\ UNCHANGED <<recVars, cmpVars, rdrVars, allVars, fpuVars>>

CodecNext == CodecWriteFileHeader \/ CodecWriteFloat \/ CodecClose \/ CodecRead

----------------------------------------------------------------------------
(* compareFloats.cpp: isnan, ==, ulpDiff on bit patterns (most significant  *)
(* byte first) of 4 and 8 bytes                                             *)

\* isnan that knows quiet NaNs only (the top mantissa bit set)
isnan_QuietOnly(p) ==
    IF Len(p) = 4
    THEN p[1] % 128 = 127 /\ p[2] >= 192
    ELSE p[1] % 128 = 127 /\ p[2] >= 248

\* std::isnan: exponent all ones, mantissa not zero, any sign
isnan(p) ==
    IF Len(p) = 4
    THEN /\ p[1] % 128 = 127 /\ p[2] >= 128
         /\ (p[2] % 128 # 0 \/ p[3] # 0 \/ p[4] # 0)
    ELSE /\ p[1] % 128 = 127 /\ p[2] \div 16 = 15
         /\ (p[2] % 16 # 0 \/ \E i \in 3..8 : p[i] # 0)

\* +0 or -0
IsZero(p) == p[1] % 128 = 0 /\ \A i \in 2..Len(p) : p[i] = 0

\* a == b of two floats or two doubles
FloatEq(a, b) == ~isnan(a) /\ ~isnan(b) /\ (a = b \/ (IsZero(a) /\ IsZero(b)))

\* the sign bit: ai.i & 0x80000000, ai.i & 0x8000000000000000ULL
SignBit(p) == p[1] >= 128

\* std::numeric_limits<int64_t>::max(), as eight bytes
Int64Max == << 127, 255, 255, 255, 255, 255, 255, 255 >>

\* a < b of two unsigned numbers given as byte sequences of one length
LexLess(a, b) ==
    \E i \in 1..Len(a) : a[i] < b[i] /\ \A k \in 1..(i - 1) : a[k] = b[k]

\* bytes 1..i of a - b - borrow, for a >= b
RECURSIVE SubFrom(_, _, _, _)
SubFrom(a, b, i, borrow) ==
    IF i = 0 THEN << >>
    ELSE LET d == a[i] - b[i] - borrow
         IN  SubFrom(a, b, i - 1, IF d < 0 THEN 1 ELSE 0)
                 \o << IF d < 0 THEN d + 256 ELSE d >>

\* the difference without std::abs: a - b in 64 bits
AbsDiff_NoAbs(a, b) == SubFrom(Zeros(8 - Len(a)) \o a, Zeros(8 - Len(b)) \o b, 8, 0)

\* std::abs(static_cast<int64_t>(ai.i) - static_cast<int64_t>(bi.i)), as eight bytes
AbsDiff(a, b) ==
    LET a8 == Zeros(8 - Len(a)) \o a
        b8 == Zeros(8 - Len(b)) \o b
    IN  IF LexLess(a8, b8) THEN SubFrom(b8, a8, 8, 0) ELSE SubFrom(a8, b8, 8, 0)

\* ulpDiff without the test of the sign bits
ulpDiff_NoSignTest(a, b) ==
    IF FloatEq(a, b) THEN Zeros(8)
    ELSE IF isnan(a) \/ isnan(b) THEN Int64Max
    ELSE AbsDiff(a, b)

\* ulpDiff(float, float) and ulpDiff(double, double): an int64_t, as eight bytes
ulpDiff(a, b) ==
    IF FloatEq(a, b) THEN Zeros(8)
    ELSE IF isnan(a) \/ isnan(b) THEN Int64Max
    ELSE IF SignBit(a) # SignBit(b) THEN Int64Max
    ELSE AbsDiff(a, b)

\* an int >= 0 widened to int64_t, as eight bytes
Int64Of(n) == Zeros(4) \o Reverse(U32Bytes("little", n))

\* diff <= maxUlpDiff
WithinUlp(diff, n) == ~LexLess(Int64Of(n), diff)

\* floatToHex, doubleToHex: the hex digits of the pattern, as numbers 0..15
ToHex(p) == [i \in 1..(2 * Len(p)) |->
                IF i % 2 = 1 THEN p[(i + 1) \div 2] \div 16 ELSE p[i \div 2] % 16]

\* floatDiffDescription: both values, their ULP difference, both hex patterns
floatDiffDescription(h, a, b) ==
    IF a.dataSize = 4 \/ a.dataSize = 8
    THEN [text |-> IF a.dataSize = 4 THEN "Float difference" ELSE "Double difference",
          values |-> << BitsOf(h, a), BitsOf(h, b) >>,
          ulp |-> ulpDiff(BitsOf(h, a), BitsOf(h, b)),
          hex |-> << ToHex(BitsOf(h, a)), ToHex(BitsOf(h, b)) >>]
    ELSE [text |-> "Unsupported float size for detailed comparison"]

\* compareFloats(a, b, maxUlpDiff, diffDescription): the result, and the
\* description it leaves (empty when it writes none)
compareFloats(h, a, b, n) ==
    IF a.dataSize # b.dataSize
    THEN [match |-> FALSE, diffDescription |-> [text |-> "Data size mismatch"]]
    ELSE IF a.dataSize = 4 \/ a.dataSize = 8
    THEN LET aFloat == BitsOf(h, a)
             bFloat == BitsOf(h, b)
         IN  IF isnan(aFloat) /\ isnan(bFloat)
             THEN [match |-> TRUE, diffDescription |-> [text |-> ""]]
             ELSE IF isnan(aFloat) \/ isnan(bFloat)
             THEN [match |-> FALSE, diffDescription |-> [text |-> "NaN mismatch"]]
             ELSE IF WithinUlp(ulpDiff(aFloat, bFloat), n)
             THEN [match |-> TRUE, diffDescription |-> [text |-> ""]]
             ELSE [match |-> FALSE, diffDescription |-> floatDiffDescription(h, a, b)]
    ELSE [match |-> FALSE, diffDescription |-> [text |-> "Unsupported float size"]]

----------------------------------------------------------------------------
(* The files compareFiles is given *)

RECURSIVE Payload(_, _, _, _)
Payload(h, t, ext, ps) ==
    IF ps = << >> THEN << >>
    ELSE writeFloat(h, t, ext, InMemory(h, t, ext, Head(ps))) \o Payload(h, t, ext, Tail(ps))

\* the file the recorder leaves on host h for the patterns ps of type t
GoldenFile(h, t, ps) ==
    OnDisk(writeFileHeader(h, t, 16, Len(ps), 0) \o Payload(h, t, 16, ps))

\* the same file with the magic tag "XXXX"
BadMagic(f) == OnDisk(<< 88, 88, 88, 88 >> \o SubSeq(f.bytes, 5, Len(f.bytes)))

\* the same file cut short by n bytes
Truncated(f, n) == OnDisk(SubSeq(f.bytes, 1, Len(f.bytes) - n))

\* files of one element, one per pattern
SingleFiles(h) ==
    {GoldenFile(h, "Simple", << p >>) : p \in Patterns4}
        \cup {GoldenFile(h, "Double", << p >>) : p \in Patterns8}

\* files that differ in length, width and validity
MixedFiles(h) ==
    { GoldenFile(h, "Simple", << << 63, 128, 0, 0 >>, << 0, 0, 0, 0 >> >>),
      GoldenFile(h, "Simple", << << 63, 128, 0, 1 >>, << 128, 0, 0, 0 >> >>),
      GoldenFile(h, "Simple", << << 63, 128, 0, 0 >> >>),
      GoldenFile(h, "Simple", << << 63, 128, 0, 0 >>, << 127, 192, 0, 0 >>, << 63, 128, 0, 5 >> >>),
      BadMagic(GoldenFile(h, "Simple", << << 63, 128, 0, 0 >>, << 0, 0, 0, 0 >> >>)),
      Truncated(GoldenFile(h, "Simple", << << 63, 128, 0, 0 >>, << 0, 0, 0, 0 >> >>), 2),
      GoldenFile(h, "Double", << << 63, 240, 0, 0, 0, 0, 0, 0 >>, << 63, 240, 0, 0, 0, 0, 0, 1 >> >>),
      Missing }

\* the tolerances callers pass: exact, the 4 of the first compareFiles, the
\* 10000 of compareAllTypes, and one above the distance from -0 to +infinity
Tolerances == {0, 4, 10000, 16777216}

\* sizeof(T) of the category
CategoryWidth(c) == IF c = "simple" THEN 4 ELSE 8

----------------------------------------------------------------------------
(* compareFloats.cpp: one call of readBinaryFile, on files cut at every      *)
(* length, with a wrong tag, with more or fewer bytes than the header tells  *)

\* what the recorder leaves for two elements of each type, and for none
ReaderGolden(h) ==
    { GoldenFile(h, "Simple", << << 63, 128, 0, 1 >>, << 255, 128, 0, 1 >> >>),
      GoldenFile(h, "Double", << << 63, 240, 0, 0, 0, 0, 0, 1 >>, << 128, 0, 0, 0, 0, 0, 0, 0 >> >>),
      GoldenFile(h, "Extended", << << 63, 255, 128, 0, 0, 0, 0, 0, 0, 0 >>,
                                   << 127, 255, 128, 0, 0, 0, 0, 0, 0, 0 >> >>),
      GoldenFile(h, "Simple", << >>) }

\* the files readBinaryFile is called on: no file, every prefix of a recorded
\* file (the file itself included), a recorded file under the tag "XXXX" or
\* with one byte of the tag replaced by 'x', a recorded file with four more
\* bytes at its end, and a file recorded on a host of the other byte order
ReaderFiles(h) ==
    LET other == IF h = "little" THEN "big" ELSE "little"
    IN  {Missing}
          \cup UNION {{OnDisk(SubSeq(f.bytes, 1, n)) : n \in 0..Len(f.bytes)} : f \in ReaderGolden(h)}
          \cup {BadMagic(f) : f \in ReaderGolden(h)}
          \cup {OnDisk([f.bytes EXCEPT ![i] = 120]) : f \in ReaderGolden(h), i \in 1..4}
          \cup {OnDisk(f.bytes \o << 0, 0, 128, 63 >>) : f \in ReaderGolden(h)}
          \cup ReaderGolden(other)

ReaderStart ==
    /\ rdHost \in Hosts
    /\ rdFile \in ReaderFiles(rdHost)
    /\ rdpc = "call"
    /\ rdData = << >>

\* readBinaryFile(filename) returns
ReaderCall ==
    /\ rdpc = "call"
    /\ rdData' = readBinaryFile(rdHost, rdFile)
    /\ rdpc' = "returned"
    /\ UNCHANGED <<rdHost, rdFile>>
    /\ UNCHANGED <<codecVars, recVars, cmpVars, allVars, fpuVars>>

\* the file ends inside the header before dataSize is read: header.dataSize is
\* indeterminate, and when the tag happens to pass, std::vector<char>
\* buffer(header.dataSize) can throw std::bad_alloc, which nothing catches
ReaderCallTerminates ==
    /\ rdpc = "call"
    /\ rdFile.exists
    /\ Len(rdFile.bytes) < 16
    /\ rdpc' = "terminated"
    /\ UNCHANGED <<rdHost, rdFile, rdData>>
    /\ UNCHANGED <<codecVars, recVars, cmpVars, allVars, fpuVars>>

ReaderNext == ReaderCall \/ ReaderCallTerminates

----------------------------------------------------------------------------
(* compareFloats.cpp: compareFiles *)

CmpStart ==
    /\ host \in Hosts
    /\ \/ /\ filenames \in [1..2 -> SingleFiles(host)]
          /\ category \in {"simple", "double"}
          /\ maxUlpDiff \in Tolerances
       \/ /\ \E n \in 1..MaxFiles : filenames \in [1..n -> MixedFiles(host)]
          /\ category = "simple"
          /\ maxUlpDiff = 10000
    /\ mpc = "start"
    /\ fk = 1
    /\ allData = << >>
    /\ headers = << >>
    /\ ci = 1
    /\ cj = 2
    /\ exactMatches = << >>
    /\ differences = << >>
    /\ log = << >>
    /\ logFile = << >>
    /\ printed = << >>
    /\ summary = << >>

\* filenames.size() < 2: "Need at least two files to compare"
CompareTooFewNames ==
    /\ mpc = "start"
    /\ Len(filenames) < 2
    /\ mpc' = "skipped"
    /\ UNCHANGED <<host, category, filenames, maxUlpDiff, fk, allData, headers, ci, cj,
                   exactMatches, differences, log, logFile, printed, summary>>
    /\ UNCHANGED <<codecVars, recVars, rdrVars, allVars, fpuVars>>

CompareBegin ==
    /\ mpc = "start"
    /\ Len(filenames) >= 2
    /\ mpc' = "load"
    /\ UNCHANGED <<host, category, filenames, maxUlpDiff, fk, allData, headers, ci, cj,
                   exactMatches, differences, log, logFile, printed, summary>>
    /\ UNCHANGED <<codecVars, recVars, rdrVars, allVars, fpuVars>>

\* the header compareFiles reads again from a file readBinaryFile accepted
HeaderOf(h, file) ==
    [dataType |-> U32Value(h, SubSeq(file.bytes, 9, 12)),
     dataSize |-> U32Value(h, SubSeq(file.bytes, 13, 16)),
     elementCount |-> U32Value(h, SubSeq(file.bytes, 17, 20))]

\* one iteration of the loop over filenames: the file is read and kept
CompareLoad ==
    /\ mpc = "load"
    /\ fk <= Len(filenames)
    /\ LET data == readBinaryFile(host, filenames[fk])
       IN  /\ data # << >>
           /\ headers' = Append(headers, HeaderOf(host, filenames[fk]))
           /\ allData' = Append(allData, data)
    /\ fk' = fk + 1
    /\ UNCHANGED <<host, category, filenames, maxUlpDiff, mpc, ci, cj,
                   exactMatches, differences, log, logFile, printed, summary>>
    /\ UNCHANGED <<codecVars, recVars, rdrVars, allVars, fpuVars>>

\* one iteration of the loop over filenames: "Skipping file due to read error"
CompareSkipFile ==
    /\ mpc = "load"
    /\ fk <= Len(filenames)
    /\ readBinaryFile(host, filenames[fk]) = << >>
    /\ fk' = fk + 1
    /\ UNCHANGED <<host, category, filenames, maxUlpDiff, mpc, allData, headers, ci, cj,
                   exactMatches, differences, log, logFile, printed, summary>>
    /\ UNCHANGED <<codecVars, recVars, rdrVars, allVars, fpuVars>>

\* allData.size() < 2: "No valid data to compare"
CompareNoValidData ==
    /\ mpc = "load"
    /\ fk > Len(filenames)
    /\ Len(allData) < 2
    /\ mpc' = "skipped"
    /\ UNCHANGED <<host, category, filenames, maxUlpDiff, fk, allData, headers, ci, cj,
                   exactMatches, differences, log, logFile, printed, summary>>
    /\ UNCHANGED <<codecVars, recVars, rdrVars, allVars, fpuVars>>

\* the counters are created, one per data set
CompareCounters ==
    /\ mpc = "load"
    /\ fk > Len(filenames)
    /\ Len(allData) >= 2
    /\ exactMatches' = [j \in 1..Len(allData) |-> 0]
    /\ differences' = [j \in 1..Len(allData) |-> 0]
    /\ mpc' = "log"
    /\ UNCHANGED <<host, category, filenames, maxUlpDiff, fk, allData, headers, ci, cj,
                   log, logFile, printed, summary>>
    /\ UNCHANGED <<codecVars, recVars, rdrVars, allVars, fpuVars>>

\* what a read past the end of headers can print as a data size
GarbageSizes == {0, 4}

\* the loop over filenames that prints headers[i].dataSize next to each name;
\* headers[i] with i past the end of headers is undefined: it yields garbage here
CompareLogHeaders ==
    /\ mpc = "log"
    /\ printed' \in
          { l \in [1..Len(filenames) -> [name : 1..Len(filenames),
                                         dataSize : GarbageSizes \cup {headers[i].dataSize : i \in 1..Len(headers)}]] :
              \A i \in 1..Len(filenames) :
                  /\ l[i].name = i
                  /\ i <= Len(headers) => l[i].dataSize = headers[i].dataSize
                  /\ i > Len(headers) => l[i].dataSize \in GarbageSizes }
    /\ ci' = 1
    /\ cj' = 2
    /\ mpc' = "compare"
    /\ UNCHANGED <<host, category, filenames, maxUlpDiff, fk, allData, headers,
                   exactMatches, differences, log, logFile, summary>>
    /\ UNCHANGED <<codecVars, recVars, rdrVars, allVars, fpuVars>>

\* ... or the read past the end of headers faults
CompareLogHeadersFaults ==
    /\ mpc = "log"
    /\ Len(filenames) > Len(headers)
    /\ mpc' = "crashed"
    /\ UNCHANGED <<host, category, filenames, maxUlpDiff, fk, allData, headers, ci, cj,
                   exactMatches, differences, log, logFile, printed, summary>>
    /\ UNCHANGED <<codecVars, recVars, rdrVars, allVars, fpuVars>>

\* what allData[j][i] with i past the end of allData[j] can yield: an object
\* with an arbitrary dataSize, or one that looks like an element
GarbageElements(h) ==
    { FloatData(<< >>, 0),
      FloatData(Zeros(4), 4),
      FloatData(IF h = "little" THEN << 0, 0, 192, 127 >> ELSE << 127, 192, 0, 0 >>, 4) }

\* an inner loop that counts every pair as an exact match, a differing pair
\* as a difference as well
CompareWith_CountsTwice(b) ==
    LET r    == compareFloats(host, allData[1][ci], b, maxUlpDiff)
        rec  == [element |-> ci - 1, file |-> cj - 1, description |-> r.diffDescription]
        log1 == IF r.match THEN log ELSE Append(log, rec)
        last == cj >= Len(allData)
    IN  /\ exactMatches' = [exactMatches EXCEPT ![cj] = @ + 1]
        /\ differences' = IF r.match THEN differences ELSE [differences EXCEPT ![cj] = @ + 1]
        /\ log' = IF last THEN << >> ELSE log1
        /\ logFile' = IF last THEN logFile \o log1 ELSE logFile
        /\ cj' = IF last THEN 2 ELSE cj + 1
        /\ ci' = IF last THEN ci + 1 ELSE ci

\* the body of the inner loop for allData[0][i] and an element b of data set j,
\* then the step of the loops; the log is flushed after the last data set
CompareWith(b) ==
    LET r    == compareFloats(host, allData[1][ci], b, maxUlpDiff)
        rec  == [element |-> ci - 1, file |-> cj - 1, description |-> r.diffDescription]
        log1 == IF r.match THEN log ELSE Append(log, rec)
        last == cj >= Len(allData)
    IN  /\ exactMatches' = IF r.match THEN [exactMatches EXCEPT ![cj] = @ + 1] ELSE exactMatches
        /\ differences' = IF r.match THEN differences ELSE [differences EXCEPT ![cj] = @ + 1]
        /\ log' = IF last THEN << >> ELSE log1
        /\ logFile' = IF last THEN logFile \o log1 ELSE logFile
        /\ cj' = IF last THEN 2 ELSE cj + 1
        /\ ci' = IF last THEN ci + 1 ELSE ci

\* compareFloats(baselineValue, allData[j][i], ...) on an element that exists
CompareElement ==
    /\ mpc = "compare"
    /\ ci <= Len(allData[1])
    /\ ci <= Len(allData[cj])
    /\ CompareWith(allData[cj][ci])
    /\ UNCHANGED <<host, category, filenames, maxUlpDiff, mpc, fk, allData, headers,
                   printed, summary>>
    /\ UNCHANGED <<codecVars, recVars, rdrVars, allVars, fpuVars>>

\* allData[j][i] past the end of data set j: undefined, some object is compared
CompareElementPastEnd ==
    /\ mpc = "compare"
    /\ ci <= Len(allData[1])
    /\ ci > Len(allData[cj])
    /\ \E g \in GarbageElements(host) : CompareWith(g)
    /\ UNCHANGED <<host, category, filenames, maxUlpDiff, mpc, fk, allData, headers,
                   printed, summary>>
    /\ UNCHANGED <<codecVars, recVars, rdrVars, allVars, fpuVars>>

\* ... or the read faults
CompareElementFaults ==
    /\ mpc = "compare"
    /\ ci <= Len(allData[1])
    /\ ci > Len(allData[cj])
    /\ mpc' = "crashed"
    /\ UNCHANGED <<host, category, filenames, maxUlpDiff, fk, allData, headers, ci, cj,
                   exactMatches, differences, log, logFile, printed, summary>>
    /\ UNCHANGED <<codecVars, recVars, rdrVars, allVars, fpuVars>>

\* the summary table: one row per data set after the baseline, named filenames[j]
CompareSummary ==
    /\ mpc = "compare"
    /\ ci > Len(allData[1])
    /\ summary' = [r \in 1..(Len(allData) - 1) |->
                     [name |-> r + 1, exact |-> exactMatches[r + 1],
                      differences |-> differences[r + 1]]]
    /\ mpc' = "done"
    /\ UNCHANGED <<host, category, filenames, maxUlpDiff, fk, allData, headers, ci, cj,
                   exactMatches, differences, log, logFile, printed>>
    /\ UNCHANGED <<codecVars, recVars, rdrVars, allVars, fpuVars>>

compareFiles ==
    \/ CompareTooFewNames \/ CompareBegin
    \/ CompareLoad \/ CompareSkipFile \/ CompareNoValidData \/ CompareCounters
    \/ CompareLogHeaders \/ CompareLogHeadersFaults
    \/ CompareElement \/ CompareElementPastEnd \/ CompareElementFaults
    \/ CompareSummary

----------------------------------------------------------------------------
(* compareFloats.cpp: compareAllTypes *)

\* numTypes; types[1..3] are the "simple_" ones, types[4..6] the "double_" ones
NumTypes == 6

\* the files of one type behind three base paths, in the order of basePaths:
\* three valid files; one file found; two found and one of them valid; three
\* found and one of them cut short; a file shorter than the baseline; none
TypeFiles(h, t, n) ==
    LET T == IF t <= 3 THEN "Simple" ELSE "Double"
        p == IF t <= 3 THEN << << 63, 128, 0, 0 >>, << 63, 128, 0, 1 >>, << 255, 128, 0, 1 >> >>
                       ELSE << << 63, 240, 0, 0, 0, 0, 0, 0 >>, << 63, 240, 0, 0, 0, 0, 0, 1 >>,
                               << 255, 240, 0, 0, 0, 0, 0, 1 >> >>
        A == GoldenFile(h, T, << p[1], p[3] >>)
        B == GoldenFile(h, T, << p[2], p[3] >>)
    IN  CASE n = 1 -> << A, B, A >>
          [] n = 2 -> << A, Missing, Missing >>
          [] n = 3 -> << Missing, BadMagic(A), B >>
          [] n = 4 -> << A, Truncated(B, 2), B >>
          [] n = 5 -> << A, GoldenFile(h, T, << p[2] >>), B >>
          [] n = 6 -> << Missing, Missing, Missing >>

\* ++i of the loop over types, after the body or after its continue
NextType_ReturnOnSkip(i, skipped) == IF skipped THEN NumTypes + 1 ELSE i + 1

NextType(i, skipped) == i + 1

\* the names compareAllTypes collects for types[t]: the files that open
Found(t) == SelectSeq(disk[t], LAMBDA f : f.exists)

AllStart ==
    /\ host \in Hosts
    /\ \E a \in 1..NumTypes, b \in 1..NumTypes, na \in 1..6, nb \in 1..6 :
          disk = [t \in 1..NumTypes |->
                    TypeFiles(host, t, IF t = a THEN na ELSE IF t = b THEN nb ELSE 1)]
    /\ ti = 1
    /\ apc = "collect"
    /\ out = << >>
    /\ category = "simple"
    /\ filenames = << >>
    /\ maxUlpDiff = 0
    /\ mpc = "idle"
    /\ fk = 1
    /\ allData = << >>
    /\ headers = << >>
    /\ ci = 1
    /\ cj = 2
    /\ exactMatches = << >>
    /\ differences = << >>
    /\ log = << >>
    /\ logFile = << >>
    /\ printed = << >>
    /\ summary = << >>

\* filenames.size() < 2: "Not enough valid files to compare ... Skipping."
AllCollectSkip ==
    /\ apc = "collect"
    /\ ti <= NumTypes
    /\ Len(Found(ti)) < 2
    /\ out' = Append(out, [type |-> ti, said |-> "Not enough valid files", compared |-> FALSE])
    /\ ti' = NextType(ti, TRUE)
    /\ UNCHANGED <<disk, apc>>
    /\ UNCHANGED <<codecVars, recVars, cmpVars, rdrVars, fpuVars>>

\* compareFiles<float> or compareFiles<double>(filenames, types[i], 10000) is entered
AllCollectCall ==
    /\ apc = "collect"
    /\ ti <= NumTypes
    /\ Len(Found(ti)) >= 2
    /\ filenames' = Found(ti)
    /\ category' = IF ti <= 3 THEN "simple" ELSE "double"
    /\ maxUlpDiff' = 10000
    /\ mpc' = "start"
    /\ fk' = 1
    /\ allData' = << >>
    /\ headers' = << >>
    /\ ci' = 1
    /\ cj' = 2
    /\ exactMatches' = << >>
    /\ differences' = << >>
    /\ log' = << >>
    /\ printed' = << >>
    /\ summary' = << >>
    /\ apc' = "compareFiles"
    /\ UNCHANGED <<host, logFile, disk, ti, out>>
    /\ UNCHANGED <<codecVars, recVars, rdrVars, fpuVars>>

\* compareFiles returned, after its summary or after "No valid data to compare"
AllReturn ==
    /\ apc = "compareFiles"
    /\ mpc \in {"done", "skipped"}
    /\ out' = Append(out, [type |-> ti,
                           said |-> IF mpc = "skipped" THEN "No valid data" ELSE "Summary",
                           compared |-> \E j \in DOMAIN exactMatches :
                                            exactMatches[j] + differences[j] > 0])
    /\ ti' = NextType(ti, mpc = "skipped")
    /\ mpc' = "idle"
    /\ apc' = "collect"
    /\ UNCHANGED <<host, category, filenames, maxUlpDiff, fk, allData, headers, ci, cj,
                   exactMatches, differences, log, logFile, printed, summary>>
    /\ UNCHANGED disk
    /\ UNCHANGED <<codecVars, recVars, rdrVars, fpuVars>>

\* the loop over types ends
AllDone ==
    /\ apc = "collect"
    /\ ti > NumTypes
    /\ apc' = "done"
    /\ UNCHANGED <<disk, ti, out>>
    /\ UNCHANGED <<codecVars, recVars, cmpVars, rdrVars, fpuVars>>

\* compareAllTypes and the calls of compareFiles it makes, which always pass
\* two names or more
compareAllTypes ==
    \/ AllCollectSkip \/ AllCollectCall \/ AllReturn \/ AllDone
    \/ CompareBegin
    \/ CompareLoad \/ CompareSkipFile \/ CompareNoValidData \/ CompareCounters
    \/ CompareLogHeaders \/ CompareLogHeadersFaults
    \/ CompareElement \/ CompareElementPastEnd \/ CompareElementFaults
    \/ CompareSummary

----------------------------------------------------------------------------
(* FPUSettings (src/unnamed/part_002: the x87, SSE, SoftFloat and NEON       *)
(* branches; src/FPUSettings.arm64.h).  A register is the set of its bits    *)
(* that are 1; the registers of a backend are a record:                     *)
(*   cw     the x87 control word (fpu_mode, x87_mode)                        *)
(*   mxcsr  the SSE control and status register (sse_mode)                   *)
(*   fpcr   the AArch64 floating-point control register                      *)
(*   float_rounding_mode, float_exception_realtraps, float_detect_tininess   *)
(*          the state variables of SoftFloat                                 *)
(* A backend uses its own registers only; the others stay as they start.     *)

Backends == {"x87", "sse", "soft", "neon", "arm64"}

\* the bits of a number below 2^25
Bits(v) == {i \in 0..24 : (v \div 2^i) % 2 = 1}

\* the number with the bits S
RECURSIVE ValueOf(_)
ValueOf(S) ==
    IF S = {} THEN 0
    ELSE LET i == CHOOSE i \in S : TRUE IN 2^i + ValueOf(S \ {i})

\* enum FPU_Exceptions: the bits of the argument written e in the source
ExceptBits(b, e) ==
    LET x86 == [FE_INVALID |-> {0}, FE_DENORMAL |-> {1}, FE_DIVBYZERO |-> {2},
                FE_OVERFLOW |-> {3}, FE_UNDERFLOW |-> {4}, FE_INEXACT |-> {5}]
        arm == [FE_INVALID |-> {8}, FE_DENORMAL |-> {15}, FE_DIVBYZERO |-> {9},
                FE_OVERFLOW |-> {10}, FE_UNDERFLOW |-> {11}, FE_INEXACT |-> {12}]
        v   == IF b = "neon" THEN arm ELSE x86
    IN  CASE e \in DOMAIN v -> v[e]
          [] e = "FE_DENORMAL | FE_DIVBYZERO" -> v.FE_DENORMAL \cup v.FE_DIVBYZERO
          [] e = "FE_ALL_EXCEPT" -> UNION {v[f] : f \in DOMAIN v}

\* enum FPU_RoundMode: the value of the argument written m in the source; the
\* last two are values that are no rounding mode of any backend
RoundValue(b, m) ==
    CASE m = "FE_TONEAREST" -> 0
      [] m = "FE_DOWNWARD" -> IF b = "neon" THEN 2 * 2^22 ELSE 1024
      [] m = "FE_UPWARD" -> IF b = "neon" THEN 1 * 2^22 ELSE 2048
      [] m = "FE_TOWARDZERO" -> IF b = "neon" THEN 3 * 2^22 ELSE 3072
      [] m = "0x0001" -> 1
      [] m = "0x0300" -> 768

\* feraiseexcept(excepts), excepts given as its bits
feraiseexcept(b, s, excepts) ==
    CASE b = "x87" -> [s EXCEPT !.cw = @ \ excepts]
      [] b = "sse" -> [s EXCEPT !.cw = @ \ excepts,
                                !.mxcsr = @ \ {i + 7 : i \in excepts}]
      [] b = "soft" -> [s EXCEPT !.float_exception_realtraps = @ \cup excepts]
      [] b = "neon" -> [s EXCEPT !.fpcr = @ \cup (excepts \cap {8, 9, 10, 11, 12, 15})]
      [] b = "arm64" -> [s EXCEPT !.fpcr = @ \cup (excepts \cap 0..5)]

\* feclearexcept that leaves the trap masks as they are
feclearexcept_Nothing(b, s, excepts) == s

\* feclearexcept(excepts)
feclearexcept(b, s, excepts) ==
    CASE b = "x87" -> [s EXCEPT !.cw = (@ \cup excepts) \cap 0..15]
      [] b = "sse" -> [s EXCEPT !.cw = (@ \cup excepts) \cap 0..15,
                                !.mxcsr = @ \cup {i + 7 : i \in excepts}]
      [] b = "soft" -> [s EXCEPT !.float_exception_realtraps = @ \ excepts]
      [] b = "neon" -> [s EXCEPT !.fpcr = @ \ (excepts \cap {8, 9, 10, 11, 12, 15})]
      [] b = "arm64" -> [s EXCEPT !.fpcr = @ \ (excepts \cap 0..5)]

\* fegetround()
fegetround(b, s) ==
    CASE b = "x87" -> ValueOf(s.cw \cap {10, 11})
      [] b = "sse" -> ValueOf({i - 3 : i \in s.mxcsr} \cap {10, 11})
      [] b = "soft" ->
            (CASE s.float_rounding_mode = "float_round_down" -> 1024
               [] s.float_rounding_mode = "float_round_up" -> 2048
               [] s.float_rounding_mode = "float_round_to_zero" -> 3072
               [] OTHER -> 0)
      [] b = "neon" -> ValueOf(s.fpcr \cap {22, 23})
      [] b = "arm64" -> ValueOf({i - 22 : i \in s.fpcr \cap {22, 23}})

\* fesetround(roundMode): the registers it leaves and what it returns
fesetround(b, s, roundMode) ==
    CASE b = "x87" ->
            [regs |-> [s EXCEPT !.cw = ((@ \ {10, 11}) \cup Bits(roundMode)) \cap 0..15],
             ret |-> 0]
      [] b = "sse" ->
            [regs |-> [s EXCEPT !.mxcsr = (@ \ {13, 14}) \cup {i + 3 : i \in Bits(roundMode)}],
             ret |-> 0]
      [] b = "soft" ->
            (CASE roundMode = 1024 -> [regs |-> [s EXCEPT !.float_rounding_mode = "float_round_down"], ret |-> 0]
               [] roundMode = 2048 -> [regs |-> [s EXCEPT !.float_rounding_mode = "float_round_up"], ret |-> 0]
               [] roundMode = 3072 -> [regs |-> [s EXCEPT !.float_rounding_mode = "float_round_to_zero"], ret |-> 0]
               [] roundMode = 0 -> [regs |-> [s EXCEPT !.float_rounding_mode = "float_round_nearest_even"], ret |-> 0]
               [] OTHER -> [regs |-> s, ret |-> 1])
      [] b = "neon" ->
            [regs |-> [s EXCEPT !.fpcr = (@ \ {22, 23}) \cup Bits(roundMode)], ret |-> 0]
      [] b = "arm64" ->
            [regs |-> [s EXCEPT !.fpcr = (@ \ {22, 23}) \cup {i + 12 : i \in Bits(roundMode) \cap {10, 11}}],
             ret |-> 0]

\* FE_DFL_ENV as Math.cpp defines it: zero on x87 and SSE, tininess 42 on
\* SoftFloat.  A fenv_t holds x87_mode (x87), sse_mode and x87_mode (SSE),
\* tininess, rounding_mode and exception_realtraps (SoftFloat), fpcr (ARM).
NoEnv ==
    [x87_mode |-> {}, sse_mode |-> {}, fpcr |-> {},
     tininess |-> 42, rounding_mode |-> "", exception_realtraps |-> {}]

\* the first lines of fegetenv and fesetenv: FE_DFL_ENV is saved on first use
SaveDefaultEnv(b, s, dfl) ==
    CASE b = "x87" -> IF dfl.x87_mode = {} THEN [dfl EXCEPT !.x87_mode = s.cw] ELSE dfl
      [] b = "sse" -> [dfl EXCEPT !.x87_mode = IF @ = {} THEN s.cw ELSE @,
                                  !.sse_mode = IF @ = {} THEN s.mxcsr ELSE @]
      [] b = "soft" -> IF dfl.tininess = 42
                       THEN [dfl EXCEPT !.tininess = s.float_detect_tininess,
                                        !.rounding_mode = s.float_rounding_mode,
                                        !.exception_realtraps = s.float_exception_realtraps]
                       ELSE dfl
      [] OTHER -> dfl

\* fegetenv(envp): what it stores in *envp
fegetenv(b, s, env) ==
    CASE b = "x87" -> [env EXCEPT !.x87_mode = s.cw]
      [] b = "sse" -> [env EXCEPT !.x87_mode = s.cw, !.sse_mode = s.mxcsr]
      [] b = "soft" -> [env EXCEPT !.tininess = s.float_detect_tininess,
                                   !.rounding_mode = s.float_rounding_mode,
                                   !.exception_realtraps = s.float_exception_realtraps]
      [] OTHER -> [env EXCEPT !.fpcr = s.fpcr]

\* fesetenv on SSE that loads the x87 word only
fesetenv_X87WordOnly(b, s, env) ==
    CASE b \in {"x87", "sse"} -> [s EXCEPT !.cw = env.x87_mode]
      [] b = "soft" -> [s EXCEPT !.float_detect_tininess = env.tininess,
                                 !.float_rounding_mode = env.rounding_mode,
                                 !.float_exception_realtraps = env.exception_realtraps]
      [] OTHER -> [s EXCEPT !.fpcr = env.fpcr]

\* fesetenv(envp): the registers it leaves
fesetenv(b, s, env) ==
    CASE b = "x87" -> [s EXCEPT !.cw = env.x87_mode]
      [] b = "sse" -> [s EXCEPT !.cw = env.x87_mode, !.mxcsr = env.sse_mode]
      [] b = "soft" -> [s EXCEPT !.float_detect_tininess = env.tininess,
                                 !.float_rounding_mode = env.rounding_mode,
                                 !.float_exception_realtraps = env.exception_realtraps]
      [] OTHER -> [s EXCEPT !.fpcr = env.fpcr]

\* the precision-control bits of the x87 control word for a type: 0x0000,
\* 0x0200, 0x0300
PrecisionBits(T) == IF T = "Simple" THEN {} ELSE IF T = "Double" THEN {9} ELSE {8, 9}

\* streflop_init that sets the precision bits without clearing the field first
streflop_init_NoClear(b, s, T, nd) ==
    CASE T \notin FloatTypes -> s
      [] b = "x87" -> [s EXCEPT !.cw = @ \cup PrecisionBits(T)]
      [] b = "sse" -> [s EXCEPT !.cw = @ \cup PrecisionBits(T),
                                !.mxcsr = IF nd THEN @ \cup {6, 15} ELSE @ \ {6, 15}]
      [] b = "soft" -> s
      [] OTHER -> [s EXCEPT !.fpcr = IF nd THEN (@ \ {22, 23}) \cup {24} ELSE @ \ {22, 23, 24}]

\* streflop_init<T>(); nd: STREFLOP_NO_DENORMALS is defined.  For a type
\* that has no specialisation the primary template is taken, which is empty
\* (on x87 it does not compile).  On ARM Simple and Double are initialised
\* alike, and FPUSettings.arm64.h initialises Extended as Double
streflop_init(b, s, T, nd) ==
    CASE T \notin FloatTypes -> s
      [] b = "x87" -> [s EXCEPT !.cw = (@ \ {8, 9}) \cup PrecisionBits(T)]
      [] b = "sse" -> [s EXCEPT !.cw = (@ \ {8, 9}) \cup PrecisionBits(T),
                                !.mxcsr = IF nd THEN @ \cup {6, 15} ELSE @ \ {6, 15}]
      [] b = "soft" -> s
      [] OTHER -> [s EXCEPT !.fpcr = IF nd THEN (@ \ {22, 23}) \cup {24} ELSE @ \ {22, 23, 24}]

\* the arguments the calls are made with
ExceptArgs == {"FE_INVALID", "FE_DENORMAL | FE_DIVBYZERO", "FE_ALL_EXCEPT"}
RoundModes == {"FE_TONEAREST", "FE_DOWNWARD", "FE_UPWARD", "FE_TOWARDZERO"}
NoRoundModes == {"0x0001", "0x0300"}

\* the registers of backend b in a control state set up earlier: rounding
\* mode r, traps armed for the flags a (or for none), x87 precision of type
\* T, the denormal flags set or not.  Bit 6 of the x87 control word reads 1.
PriorState(b, r, a, T, dz) ==
    LET x86   == IF a = "none" THEN {} ELSE ExceptBits("x87", a)
        arm   == IF a = "none" THEN {} ELSE ExceptBits("neon", a)
        unset == [cw |-> {}, mxcsr |-> {}, fpcr |-> {},
                  float_rounding_mode |-> "float_round_nearest_even",
                  float_exception_realtraps |-> {}, float_detect_tininess |-> 0]
        cw    == {6} \cup (0..5 \ x86) \cup PrecisionBits(T) \cup Bits(RoundValue("x87", r))
    IN  CASE b = "x87" -> [unset EXCEPT !.cw = cw]
          [] b = "sse" ->
                [unset EXCEPT !.cw = cw,
                              !.mxcsr = {i + 7 : i \in 0..5 \ x86}
                                          \cup {i + 3 : i \in Bits(RoundValue("sse", r))}
                                          \cup (IF dz THEN {6, 15} ELSE {})]
          [] b = "soft" ->
                [fesetround("soft", unset, RoundValue("soft", r)).regs
                    EXCEPT !.float_exception_realtraps = x86]
          [] b = "neon" ->
                [unset EXCEPT !.fpcr = arm \cup Bits(RoundValue("neon", r))
                                           \cup (IF dz THEN {24} ELSE {})]
          [] b = "arm64" ->
                [unset EXCEPT !.fpcr = arm \cup {i + 12 : i \in Bits(RoundValue("arm64", r))}
                                           \cup (IF dz THEN {24} ELSE {})]

\* the same call is made on every backend of the run; B is the set of them
FpuStart(B) ==
    /\ \E r \in {"FE_TONEAREST", "FE_DOWNWARD"}, a \in {"none", "FE_DENORMAL | FE_DIVBYZERO"},
          T \in {"Double", "Extended"}, dz \in BOOLEAN :
          fpu = [b \in B |-> PriorState(b, r, a, T, dz)]
    /\ noDenormals \in BOOLEAN
    /\ FE_DFL_ENV = [b \in B |-> NoEnv]
    /\ envp = [b \in B |-> NoEnv]
    /\ atCapture = << >>
    /\ call = [op |-> "none", arg |-> "", ret |-> [b \in B |-> 0], changed |-> [b \in B |-> FALSE]]

\* a call op(arg) that leaves next[b].regs and returns next[b].ret on backend b
Calls(op, arg, next) ==
    /\ fpu' = [b \in DOMAIN fpu |-> next[b].regs]
    /\ call' = [op |-> op, arg |-> arg, ret |-> [b \in DOMAIN fpu |-> next[b].ret],
                changed |-> [b \in DOMAIN fpu |-> next[b].regs # fpu[b]]]
    /\ UNCHANGED noDenormals
    /\ UNCHANGED <<codecVars, recVars, cmpVars, rdrVars, allVars>>

FeRaiseExcept(e) ==
    /\ Calls("feraiseexcept", e,
             [b \in DOMAIN fpu |-> [regs |-> feraiseexcept(b, fpu[b], ExceptBits(b, e)), ret |-> 0]])
    /\ UNCHANGED <<FE_DFL_ENV, envp, atCapture>>

FeClearExcept(e) ==
    /\ Calls("feclearexcept", e,
             [b \in DOMAIN fpu |-> [regs |-> feclearexcept(b, fpu[b], ExceptBits(b, e)), ret |-> 0]])
    /\ UNCHANGED <<FE_DFL_ENV, envp, atCapture>>

FeGetRound ==
    /\ Calls("fegetround", "",
             [b \in DOMAIN fpu |-> [regs |-> fpu[b], ret |-> fegetround(b, fpu[b])]])
    /\ UNCHANGED <<FE_DFL_ENV, envp, atCapture>>

FeSetRound(m) ==
    /\ Calls("fesetround", m,
             [b \in DOMAIN fpu |-> fesetround(b, fpu[b], RoundValue(b, m))])
    /\ UNCHANGED <<FE_DFL_ENV, envp, atCapture>>

\* fegetenv(&env), the first call the caller makes
FeGetEnv ==
    /\ call.op = "none"
    /\ FE_DFL_ENV' = [b \in DOMAIN fpu |-> SaveDefaultEnv(b, fpu[b], FE_DFL_ENV[b])]
    /\ envp' = [b \in DOMAIN fpu |-> fegetenv(b, fpu[b], envp[b])]
    /\ atCapture' = fpu
    /\ Calls("fegetenv", "", [b \in DOMAIN fpu |-> [regs |-> fpu[b], ret |-> 0]])

\* feholdexcept(&env), the first call the caller makes: fegetenv(envp), then
\* feclearexcept(FE_ALL_EXCEPT)
FeHoldExcept ==
    /\ call.op = "none"
    /\ FE_DFL_ENV' = [b \in DOMAIN fpu |-> SaveDefaultEnv(b, fpu[b], FE_DFL_ENV[b])]
    /\ envp' = [b \in DOMAIN fpu |-> fegetenv(b, fpu[b], envp[b])]
    /\ atCapture' = fpu
    /\ Calls("feholdexcept", "",
             [b \in DOMAIN fpu |->
                 [regs |-> feclearexcept(b, fpu[b], ExceptBits(b, "FE_ALL_EXCEPT")), ret |-> 0]])

\* fesetenv(&env) with the env fegetenv or feholdexcept filled
FeSetEnv ==
    /\ atCapture # << >>
    /\ FE_DFL_ENV' = [b \in DOMAIN fpu |-> SaveDefaultEnv(b, fpu[b], FE_DFL_ENV[b])]
    /\ Calls("fesetenv", "", [b \in DOMAIN fpu |-> [regs |-> fesetenv(b, fpu[b], envp[b]), ret |-> 0]])
    /\ UNCHANGED <<envp, atCapture>>

\* streflop_init<T>(); a NEON build has no Extended (#error), and on x87 the
\* primary template does not compile
StreflopInit(T) ==
    /\ T = "Extended" => "neon" \notin DOMAIN fpu
    /\ T \notin FloatTypes => "x87" \notin DOMAIN fpu
    /\ Calls("streflop_init", T,
             [b \in DOMAIN fpu |-> [regs |-> streflop_init(b, fpu[b], T, noDenormals), ret |-> 0]])
    /\ UNCHANGED <<FE_DFL_ENV, envp, atCapture>>

\* the calls with the arguments the enums name
fpuNamedCalls ==
    \/ \E e \in ExceptArgs : FeRaiseExcept(e)
    \/ \E e \in ExceptArgs : FeClearExcept(e)
    \/ FeGetRound
    \/ \E m \in RoundModes : FeSetRound(m)
    \/ FeGetEnv
    \/ FeHoldExcept
    \/ FeSetEnv
    \/ \E T \in FloatTypes : StreflopInit(T)

\* the same, and fesetround with a value that is no rounding mode and
\* streflop_init for a type that is none of the three
fpuCalls ==
    \/ fpuNamedCalls
    \/ \E m \in NoRoundModes : FeSetRound(m)
    \/ StreflopInit("int")

----------------------------------------------------------------------------
(* arithmeticTest.cpp: doTest.  The values themselves come out of floating- *)
(* point arithmetic and the math library; the model keeps, per file, the    *)
(* header writeFileHeader was given and how many writeFloat calls followed. *)

RecFiles == {"basic", "nan", "lib"}

\* the counts doTest passes to writeFileHeader, and the lengths of its loops
BasicDeclared == 10000
NanDeclared == 10003
LibDeclared == 10000
BasicSteps == 10000
DenormalSteps == 5000
OverflowSteps == 5000
LibSteps == 10000

NoFileYet == [headers |-> << >>, written |-> 0, closed |-> FALSE]

\* writeFileHeader<FloatType>(file, elementCount, extraFlags), as doTest sees it
RecHeader(f, elementCount, extraFlags) ==
    [rfile EXCEPT ![f].headers =
        Append(@, [dataType |-> DataTypeOf(rtype), elementCount |-> elementCount,
                   extraFlags |-> extraFlags, at |-> rfile[f].written])]

\* a writeFloat that is left out once a changed control word was seen
RecFloat_SkipOnChange(f) ==
    IF lastFPCR = 639 THEN rfile ELSE [rfile EXCEPT ![f].written = @ + 1]

\* writeFloat(file, f), as doTest sees it
RecFloat(f) == [rfile EXCEPT ![f].written = @ + 1]

\* file.close()
RecClose(f) == [rfile EXCEPT ![f].closed = TRUE]

\* what getFPCR() and getMXCSR() can return: fnstcw fills 16 of the 32 bits
\* of an uninitialised local, stmxcsr stores the status flags as well; on
\* other platforms both return 0
getFPCR(b) == IF b = "neon" THEN {0} ELSE {895, 639}
getMXCSR(b) == IF b = "neon" THEN {0} ELSE {8064, 8096}

\* an operation that signals the flags e traps on backend b in the state s
Traps(b, s, e) ==
    CASE b = "x87" -> ExceptBits(b, e) \ s.cw # {}
      [] b = "sse" -> {i + 7 : i \in ExceptBits(b, e)} \ s.mxcsr # {}
      [] b = "soft" -> ExceptBits(b, e) \cap s.float_exception_realtraps # {}
      [] OTHER -> ExceptBits("neon", e) \cap s.fpcr # {}

\* the statement after an operation that signals e; "SIGFPE" if it traps
AfterSignal(e, next) ==
    IF \E b \in DOMAIN fpu : Traps(b, fpu[b], e) THEN "SIGFPE" ELSE next

\* main calls doTest<Simple>, doTest<Double> and, if the build has it,
\* doTest<Extended>: a run starts in the state the run before left, the first
\* in the state the process starts with.  Built against FPUSettings.h on one
\* backend; a NEON build has no Extended.
RecStart ==
    /\ rtype \in FloatTypes
    /\ rpc = "streflop_init"
    /\ ri = 0
    /\ rfile = [f \in RecFiles |-> NoFileYet]
    /\ lastFPCR = 0
    /\ lastMXCSR = 0
    /\ \E b \in {"x87", "sse", "soft", "neon"} :
          /\ rtype = "Extended" => b # "neon"
          /\ fpu = [x \in {b} |->
                      CASE rtype = "Simple" -> PriorState(x, "FE_TONEAREST", "none", "Extended", FALSE)
                        [] rtype = "Double" -> PriorState(x, "FE_TONEAREST", "FE_INVALID", "Simple", FALSE)
                        [] rtype = "Extended" -> PriorState(x, "FE_TONEAREST", "FE_INVALID", "Double", FALSE)]
    /\ noDenormals = FALSE
    /\ FE_DFL_ENV = << >>
    /\ envp = << >>
    /\ atCapture = << >>
    /\ call = << >>

\* streflop_init<FloatType>() and the three ofstream constructors
DoTestOpen ==
    /\ rpc = "streflop_init"
    /\ fpu' = [b \in DOMAIN fpu |-> streflop_init(b, fpu[b], rtype, noDenormals)]
    /\ rpc' = "arm"
    /\ UNCHANGED <<rtype, ri, rfile, lastFPCR, lastMXCSR>>
    /\ UNCHANGED <<noDenormals, FE_DFL_ENV, envp, atCapture, call>>
    /\ UNCHANGED <<codecVars, cmpVars, rdrVars, allVars>>

\* streflop_init<FloatType>(), and a file cannot be created: exit(2), exit(3)
\* or exit(4)
DoTestOpenFails ==
    /\ rpc = "streflop_init"
    /\ fpu' = [b \in DOMAIN fpu |-> streflop_init(b, fpu[b], rtype, noDenormals)]
    /\ rpc' = "exit"
    /\ UNCHANGED <<rtype, ri, rfile, lastFPCR, lastMXCSR>>
    /\ UNCHANGED <<noDenormals, FE_DFL_ENV, envp, atCapture, call>>
    /\ UNCHANGED <<codecVars, cmpVars, rdrVars, allVars>>

\* lastFPCR = getFPCR(); lastMXCSR = getMXCSR();
\* feraiseexcept(FE_INVALID); fesetround(FE_TONEAREST)
DoTestArm ==
    /\ rpc = "arm"
    /\ \E b \in DOMAIN fpu : lastFPCR' \in getFPCR(b) /\ lastMXCSR' \in getMXCSR(b)
    /\ fpu' = [b \in DOMAIN fpu |->
                 fesetround(b, feraiseexcept(b, fpu[b], ExceptBits(b, "FE_INVALID")),
                            RoundValue(b, "FE_TONEAREST")).regs]
    /\ rpc' = "basicHeader"
    /\ UNCHANGED <<rtype, ri, rfile>>
    /\ UNCHANGED <<noDenormals, FE_DFL_ENV, envp, atCapture, call>>
    /\ UNCHANGED <<codecVars, cmpVars, rdrVars, allVars>>

DoTestBasicHeader ==
    /\ rpc = "basicHeader"
    /\ rfile' = RecHeader("basic", BasicDeclared, 0)
    /\ ri' = 0
    /\ rpc' = "basic"
    /\ UNCHANGED <<rtype, lastFPCR, lastMXCSR>>
    /\ UNCHANGED <<codecVars, cmpVars, rdrVars, allVars, fpuVars>>

\* one iteration of the first loop: the recurrence on f, then writeFloat;
\* before, between and after, the registers are read, a change is printed
\* and kept in lastFPCR and lastMXCSR
DoTestBasicStep ==
    /\ rpc = "basic"
    /\ ri < BasicSteps
    /\ \E b \in DOMAIN fpu : lastFPCR' \in getFPCR(b) /\ lastMXCSR' \in getMXCSR(b)
    /\ rfile' = RecFloat("basic")
    /\ ri' = ri + 1
    /\ UNCHANGED <<rtype, rpc>>
    /\ UNCHANGED <<codecVars, cmpVars, rdrVars, allVars, fpuVars>>

DoTestBasicClose ==
    /\ rpc = "basic"
    /\ ri >= BasicSteps
    /\ rfile' = RecClose("basic")
    /\ rpc' = "nanHeader"
    /\ UNCHANGED <<rtype, ri, lastFPCR, lastMXCSR>>
    /\ UNCHANGED <<codecVars, cmpVars, rdrVars, allVars, fpuVars>>

DoTestNanHeader ==
    /\ rpc = "nanHeader"
    /\ rfile' = RecHeader("nan", NanDeclared, 1)
    /\ ri' = 0
    /\ rpc' = "denormal"
    /\ UNCHANGED <<rtype, lastFPCR, lastMXCSR>>
    /\ UNCHANGED <<codecVars, cmpVars, rdrVars, allVars, fpuVars>>

\* f *= 0.1; writeFloat
DoTestDenormalStep ==
    /\ rpc = "denormal"
    /\ ri < DenormalSteps
    /\ rfile' = RecFloat("nan")
    /\ ri' = ri + 1
    /\ UNCHANGED <<rtype, rpc, lastFPCR, lastMXCSR>>
    /\ UNCHANGED <<codecVars, cmpVars, rdrVars, allVars, fpuVars>>

\* f = 10.0001, i = 0
DoTestOverflowStart ==
    /\ rpc = "denormal"
    /\ ri >= DenormalSteps
    /\ ri' = 0
    /\ rpc' = "overflow"
    /\ UNCHANGED <<rtype, rfile, lastFPCR, lastMXCSR>>
    /\ UNCHANGED <<codecVars, cmpVars, rdrVars, allVars, fpuVars>>

\* f *= 10.0001; writeFloat
DoTestOverflowStep ==
    /\ rpc = "overflow"
    /\ ri < OverflowSteps
    /\ rfile' = RecFloat("nan")
    /\ ri' = ri + 1
    /\ UNCHANGED <<rtype, rpc, lastFPCR, lastMXCSR>>
    /\ UNCHANGED <<codecVars, cmpVars, rdrVars, allVars, fpuVars>>

\* f = 1.0 / +0.0; writeFloat
DoTestPlusInf ==
    /\ rpc = "overflow"
    /\ ri >= OverflowSteps
    /\ rpc' = AfterSignal("FE_DIVBYZERO", "minusInf")
    /\ rfile' = IF rpc' = "SIGFPE" THEN rfile ELSE RecFloat("nan")
    /\ UNCHANGED <<rtype, ri, lastFPCR, lastMXCSR>>
    /\ UNCHANGED <<codecVars, cmpVars, rdrVars, allVars, fpuVars>>

\* f = 1.0 / -0.0; writeFloat
DoTestMinusInf ==
    /\ rpc = "minusInf"
    /\ rpc' = AfterSignal("FE_DIVBYZERO", "disarm")
    /\ rfile' = IF rpc' = "SIGFPE" THEN rfile ELSE RecFloat("nan")
    /\ UNCHANGED <<rtype, ri, lastFPCR, lastMXCSR>>
    /\ UNCHANGED <<codecVars, cmpVars, rdrVars, allVars, fpuVars>>

\* feclearexcept(FE_INVALID)
DoTestDisarm ==
    /\ rpc = "disarm"
    /\ fpu' = [b \in DOMAIN fpu |-> feclearexcept(b, fpu[b], ExceptBits(b, "FE_INVALID"))]
    /\ rpc' = "infTimesZero"
    /\ UNCHANGED <<rtype, ri, rfile, lastFPCR, lastMXCSR>>
    /\ UNCHANGED <<noDenormals, FE_DFL_ENV, envp, atCapture, call>>
    /\ UNCHANGED <<codecVars, cmpVars, rdrVars, allVars>>

\* f *= 0.0; writeFloat
DoTestInfTimesZero ==
    /\ rpc = "infTimesZero"
    /\ rpc' = AfterSignal("FE_INVALID", "infMinusInf")
    /\ rfile' = IF rpc' = "SIGFPE" THEN rfile ELSE RecFloat("nan")
    /\ UNCHANGED <<rtype, ri, lastFPCR, lastMXCSR>>
    /\ UNCHANGED <<codecVars, cmpVars, rdrVars, allVars, fpuVars>>

\* f = +inf; g = -inf; f += g; writeFloat
DoTestInfMinusInf ==
    /\ rpc = "infMinusInf"
    /\ rpc' = AfterSignal("FE_INVALID", "zeroByZero")
    /\ rfile' = IF rpc' = "SIGFPE" THEN rfile ELSE RecFloat("nan")
    /\ UNCHANGED <<rtype, ri, lastFPCR, lastMXCSR>>
    /\ UNCHANGED <<codecVars, cmpVars, rdrVars, allVars, fpuVars>>

\* f = 0; g = 0; f /= g; writeFloat
DoTestZeroByZero ==
    /\ rpc = "zeroByZero"
    /\ rpc' = AfterSignal("FE_INVALID", "nanClose")
    /\ rfile' = IF rpc' = "SIGFPE" THEN rfile ELSE RecFloat("nan")
    /\ UNCHANGED <<rtype, ri, lastFPCR, lastMXCSR>>
    /\ UNCHANGED <<codecVars, cmpVars, rdrVars, allVars, fpuVars>>

DoTestNanClose ==
    /\ rpc = "nanClose"
    /\ rfile' = RecClose("nan")
    /\ rpc' = "rearm"
    /\ UNCHANGED <<rtype, ri, lastFPCR, lastMXCSR>>
    /\ UNCHANGED <<codecVars, cmpVars, rdrVars, allVars, fpuVars>>

\* feraiseexcept(FE_INVALID)
DoTestRearm ==
    /\ rpc = "rearm"
    /\ fpu' = [b \in DOMAIN fpu |-> feraiseexcept(b, fpu[b], ExceptBits(b, "FE_INVALID"))]
    /\ rpc' = "libHeader"
    /\ UNCHANGED <<rtype, ri, rfile, lastFPCR, lastMXCSR>>
    /\ UNCHANGED <<noDenormals, FE_DFL_ENV, envp, atCapture, call>>
    /\ UNCHANGED <<codecVars, cmpVars, rdrVars, allVars>>

DoTestLibHeader ==
    /\ rpc = "libHeader"
    /\ rfile' = RecHeader("lib", LibDeclared, 2)
    /\ ri' = 0
    /\ rpc' = "lib"
    /\ UNCHANGED <<rtype, lastFPCR, lastMXCSR>>
    /\ UNCHANGED <<codecVars, cmpVars, rdrVars, allVars, fpuVars>>

\* f = tanh(cbrt(fabs(log2(sin(RandomII(0, i)) + 2)) + 1)); writeFloat
DoTestLibStep ==
    /\ rpc = "lib"
    /\ ri < LibSteps
    /\ rfile' = RecFloat("lib")
    /\ ri' = ri + 1
    /\ UNCHANGED <<rtype, rpc, lastFPCR, lastMXCSR>>
    /\ UNCHANGED <<codecVars, cmpVars, rdrVars, allVars, fpuVars>>

DoTestLibClose ==
    /\ rpc = "lib"
    /\ ri >= LibSteps
    /\ rfile' = RecClose("lib")
    /\ rpc' = "done"
    /\ UNCHANGED <<rtype, ri, lastFPCR, lastMXCSR>>
    /\ UNCHANGED <<codecVars, cmpVars, rdrVars, allVars, fpuVars>>

doTest ==
    \/ DoTestOpen \/ DoTestOpenFails \/ DoTestArm
    \/ DoTestBasicHeader \/ DoTestBasicStep \/ DoTestBasicClose
    \/ DoTestNanHeader \/ DoTestDenormalStep \/ DoTestOverflowStart \/ DoTestOverflowStep
    \/ DoTestPlusInf \/ DoTestMinusInf \/ DoTestDisarm
    \/ DoTestInfTimesZero \/ DoTestInfMinusInf \/ DoTestZeroByZero \/ DoTestNanClose
    \/ DoTestRearm \/ DoTestLibHeader \/ DoTestLibStep \/ DoTestLibClose

----------------------------------------------------------------------------
(* Specifications *)

CodecIdle ==
    /\ ctype = "Simple"
    /\ sizeofExt = 16
    /\ cpc = "idle"
    /\ hdrCount = 0
    /\ hdrFlags = 0
    /\ written = << >>
    /\ of = [h \in Hosts |-> << >>]
    /\ rd = NoRead

RecIdle ==
    /\ rtype = "Simple"
    /\ rpc = "idle"
    /\ ri = 0
    /\ rfile = [f \in RecFiles |-> NoFileYet]
    /\ lastFPCR = 0
    /\ lastMXCSR = 0

CmpIdle ==
    /\ host = "little"
    /\ category = "simple"
    /\ filenames = << >>
    /\ maxUlpDiff = 0
    /\ mpc = "idle"
    /\ fk = 1
    /\ allData = << >>
    /\ headers = << >>
    /\ ci = 1
    /\ cj = 2
    /\ exactMatches = << >>
    /\ differences = << >>
    /\ log = << >>
    /\ logFile = << >>
    /\ printed = << >>
    /\ summary = << >>

RdrIdle ==
    /\ rdHost = "little"
    /\ rdFile = Missing
    /\ rdpc = "idle"
    /\ rdData = << >>

AllIdle ==
    /\ disk = << >>
    /\ ti = 1
    /\ apc = "idle"
    /\ out = << >>

FpuIdle ==
    /\ fpu = << >>
    /\ noDenormals = FALSE
    /\ FE_DFL_ENV = << >>
    /\ envp = << >>
    /\ atCapture = << >>
    /\ call = << >>

CodecInit == CodecStart /\ RecIdle /\ CmpIdle /\ RdrIdle /\ AllIdle /\ FpuIdle
SpecCodec == CodecInit /\ [][CodecNext]_vars

RecInit == RecStart /\ CodecIdle /\ CmpIdle /\ RdrIdle /\ AllIdle
SpecRecorder == RecInit /\ [][doTest]_vars

CmpInit == CmpStart /\ CodecIdle /\ RecIdle /\ RdrIdle /\ AllIdle /\ FpuIdle
SpecCompare == CmpInit /\ [][compareFiles]_vars

AllInit == AllStart /\ CodecIdle /\ RecIdle /\ RdrIdle /\ FpuIdle
SpecAll == AllInit /\ [][compareAllTypes]_vars

\* one backend at a time
FpuInit == (\E b \in Backends : FpuStart({b})) /\ CodecIdle /\ RecIdle /\ CmpIdle /\ RdrIdle /\ AllIdle
SpecFPU == FpuInit /\ [][fpuCalls]_vars

\* the four backends of FPUSettings side by side
LockstepInit ==
    FpuStart({"x87", "sse", "soft", "neon"}) /\ CodecIdle /\ RecIdle /\ CmpIdle /\ RdrIdle /\ AllIdle
SpecFPULockstep == LockstepInit /\ [][fpuNamedCalls]_vars

\* a backend that keeps FE_DFL_ENV, from a state with no trap or every trap
\* armed, and the calls with the arguments the enums name
EnvInit ==
    /\ \E b \in {"x87", "sse", "soft"}, r \in {"FE_TONEAREST", "FE_DOWNWARD"},
          a \in {"none", "FE_ALL_EXCEPT"} :
          fpu = [x \in {b} |-> PriorState(x, r, a, "Double", FALSE)]
    /\ noDenormals = FALSE
    /\ FE_DFL_ENV = [b \in DOMAIN fpu |-> NoEnv]
    /\ envp = [b \in DOMAIN fpu |-> NoEnv]
    /\ atCapture = << >>
    /\ call = [op |-> "none", arg |-> "", ret |-> [b \in DOMAIN fpu |-> 0],
               changed |-> [b \in DOMAIN fpu |-> FALSE]]
    /\ CodecIdle /\ RecIdle /\ CmpIdle /\ RdrIdle /\ AllIdle
SpecFPUEnv == EnvInit /\ [][fpuNamedCalls]_vars

RdrInit == ReaderStart /\ CodecIdle /\ RecIdle /\ CmpIdle /\ AllIdle /\ FpuIdle
SpecReader == RdrInit /\ [][ReaderNext]_vars

----------------------------------------------------------------------------
(* Claims about the codec *)

\* the values readBinaryFile returned on host r, as bit patterns
ReadBack(w, r) == [i \in 1..Len(rd[w][r]) |-> BitsOf(r, rd[w][r][i])]

\* C1 (as stated): whatever the byte orders of the writing and of the reading
\* host, a sequence of 4-byte or 8-byte patterns written with writeFileHeader
\* and writeFloat is returned by readBinaryFile with the same length and the
\* same bits.
C1_RoundTripAnyHosts ==
    (cpc = "read" /\ ctype \in {"Simple", "Double"}) =>
        \A w \in Hosts, r \in Hosts : ReadBack(w, r) = written

\* C2 (as stated): header and payload together are the same bytes on a
\* little-endian and on a big-endian writing host.
C2_SameBytesOnBothHosts == of["little"] = of["big"]

\* C3 (as stated): each file doTest closes holds exactly one header, written
\* before any element, and as many elements as that header declares.
C3_WrittenEqualsDeclared ==
    \A f \in RecFiles :
        rfile[f].closed =>
            /\ Len(rfile[f].headers) = 1
            /\ rfile[f].headers[1].at = 0
            /\ rfile[f].written = rfile[f].headers[1].elementCount

\* C4 (as stated): the dataSize field of the header is the number of bytes
\* writeFloat emits per element, 4, 8 and 10 for Simple, Double and Extended.
C4_DataSizeIsBytesPerElement ==
    cpc # "open" =>
        \A h \in Hosts :
            /\ U32Value(h, SubSeq(of[h], 13, 16)) = ValueWidth(ctype)
            /\ Len(of[h]) = HeaderSize + Len(written) * U32Value(h, SubSeq(of[h], 13, 16))

\* C5: once the header is written the file starts with the six 4-byte fields
\* magic "SREF" (offset 0), version 1 (4), dataType 0/1/2 (8), dataSize (12),
\* elementCount (16), extraFlags (20), in the writing host's byte order,
\* and nothing but the elements follows from offset 24 on, the first element
\* right at offset 24, most significant byte first.
C5_HeaderLayout ==
    cpc # "open" =>
        \A h \in Hosts :
            /\ Len(of[h]) = HeaderSize + Len(written) * NBytes(ctype, sizeofExt)
            /\ SubSeq(of[h], 1, 4) = << 83, 82, 69, 70 >>
            /\ U32Value(h, SubSeq(of[h], 5, 8)) = 1
            /\ U32Value(h, SubSeq(of[h], 9, 12)) =
                   (CASE ctype = "Simple" -> 0 [] ctype = "Double" -> 1 [] ctype = "Extended" -> 2)
            /\ U32Value(h, SubSeq(of[h], 13, 16)) = SizeOf(ctype, sizeofExt)
            /\ U32Value(h, SubSeq(of[h], 17, 20)) = hdrCount
            /\ U32Value(h, SubSeq(of[h], 21, 24)) = hdrFlags
            /\ Len(written) >= 1 =>
                   SubSeq(of[h], 25, 24 + NBytes(ctype, sizeofExt)) = written[1]

\* C5 witness: a closed math-library file of doubles with elements after the header
C5_Witness ==
    cpc = "closed" /\ ctype = "Double" /\ hdrFlags = 2 /\ Len(written) = 2

----------------------------------------------------------------------------
(* Claims about the comparator *)

\* the inner loop is about to compare two elements that exist, of one width, 4 or 8
AtPair ==
    /\ mpc = "compare"
    /\ ci <= Len(allData[1])
    /\ ci <= Len(allData[cj])
    /\ allData[1][ci].dataSize = allData[cj][ci].dataSize
    /\ allData[1][ci].dataSize \in {4, 8}

\* the two bit patterns, baseline first
PairA == BitsOf(host, allData[1][ci])
PairB == BitsOf(host, allData[cj][ci])

\* IEEE 754, stated without the comparator's own test: a pattern is a NaN
\* when, sign bit cleared, it is above the pattern of infinity
Magnitude(p) == [p EXCEPT ![1] = @ % 128]
Infinity(n) == IF n = 4 THEN << 127, 128, 0, 0 >> ELSE << 127, 240, 0, 0, 0, 0, 0, 0 >>
NaNPattern(p) == LexLess(Infinity(Len(p)), Magnitude(p))

CountedExact == exactMatches' = [exactMatches EXCEPT ![cj] = @ + 1] /\ differences' = differences
CountedDivergent == differences' = [differences EXCEPT ![cj] = @ + 1] /\ exactMatches' = exactMatches
CountedNear == exactMatches' = exactMatches /\ differences' = differences

\* C6 (as stated): two non-NaN elements of one sign and width whose bytes
\* differ are counted as a near match, and not as an exact match, when their
\* ULP distance is at most the tolerance passed to compareFiles, and as a
\* divergence otherwise.
C6_NearMatchCounted ==
    [][ (AtPair /\ ~NaNPattern(PairA) /\ ~NaNPattern(PairB)
            /\ (PairA[1] >= 128) = (PairB[1] >= 128) /\ PairA # PairB)
        => IF WithinUlp(AbsDiff(PairA, PairB), maxUlpDiff) THEN CountedNear ELSE CountedDivergent
      ]_vars

\* C7 (as stated): two non-NaN elements of one width whose sign bits differ,
\* zeros included, have the maximal ULP distance and are counted as a
\* divergence whatever the tolerance.
C7_SignCrossingDiverges ==
    [][ (AtPair /\ ~NaNPattern(PairA) /\ ~NaNPattern(PairB)
            /\ (PairA[1] >= 128) # (PairB[1] >= 128))
        => (ulpDiff(PairA, PairB) = Int64Max /\ CountedDivergent)
      ]_vars

\* C7 (amended): two non-NaN elements of one width whose sign bits differ and
\* that are not +0 and -0 have the maximal ULP distance and are counted as a
\* divergence whatever the tolerance; +0 against -0 has distance 0 and is
\* counted as a match.
C7_SignCrossingDivergesButZeros ==
    [][ (AtPair /\ ~NaNPattern(PairA) /\ ~NaNPattern(PairB)
            /\ (PairA[1] >= 128) # (PairB[1] >= 128))
        => IF Magnitude(PairA) = Zeros(Len(PairA)) /\ Magnitude(PairB) = Zeros(Len(PairB))
           THEN ulpDiff(PairA, PairB) = Zeros(8) /\ CountedExact
           ELSE ulpDiff(PairA, PairB) = Int64Max /\ CountedDivergent
      ]_vars

\* C7 witness: -0 against +infinity, 8388608 patterns apart, was counted as a
\* divergence under the tolerance 16777216
C7_Witness ==
    /\ mpc = "done" /\ maxUlpDiff = 16777216
    /\ Len(allData) = 2 /\ Len(allData[1]) = 1 /\ Len(allData[2]) = 1
    /\ BitsOf(host, allData[1][1]) = << 128, 0, 0, 0 >>
    /\ BitsOf(host, allData[2][1]) = << 127, 128, 0, 0 >>
    /\ differences[2] = 1 /\ exactMatches[2] = 0

\* C8: in compareFloats on 4-byte and 8-byte elements, two NaN patterns of any
\* sign and payload are counted as an exact match, and a NaN against anything
\* that is not a NaN is counted as a divergence, under every tolerance.
C8_NaNClassification ==
    [][ AtPair =>
          /\ (NaNPattern(PairA) /\ NaNPattern(PairB)) => CountedExact
          /\ (NaNPattern(PairA) # NaNPattern(PairB)) => CountedDivergent
      ]_vars

\* C8 witness: a quiet NaN against a negative NaN with another payload was
\* counted as an exact match
C8_Witness ==
    /\ mpc = "done"
    /\ Len(allData) = 2 /\ Len(allData[1]) = 1 /\ Len(allData[2]) = 1
    /\ BitsOf(host, allData[1][1]) = << 127, 248, 0, 0, 0, 0, 0, 0 >>
    /\ BitsOf(host, allData[2][1]) = << 255, 240, 0, 0, 0, 0, 0, 1 >>
    /\ exactMatches[2] = 1 /\ differences[2] = 0

\* C9 (as stated): a data set whose element count differs from the baseline's
\* takes no part in the comparison: no comparison reads it at any index, so
\* its counters stay zero up to the summary.
C9_MismatchedCountExcluded ==
    mpc \in {"compare", "done"} =>
        \A j \in 2..Len(allData) :
            Len(allData[j]) # Len(allData[1]) =>
                exactMatches[j] = 0 /\ differences[j] = 0

\* C10 (as stated): a file whose header declares a width other than that of
\* the category (4 for simple, 8 for double) is rejected by the reader, so no
\* data set holds elements of another width.
C10_WrongWidthRejected ==
    \A j \in 1..Len(allData) :
        \A i \in 1..Len(allData[j]) : allData[j][i].dataSize = CategoryWidth(category)

\* the file can be opened and starts with the tag "SREF"
GoodTag(f) == f.exists /\ Len(f.bytes) >= 4 /\ SubSeq(f.bytes, 1, 4) = << 83, 82, 69, 70 >>

\* C12: a file that opens and whose first four bytes are not "SREF" is
\* read as empty by readBinaryFile whatever follows the tag, and it adds no
\* data set: compareFiles never holds more data sets than it has met files
\* with the tag.
C12_BadMagicRejected ==
    /\ \A k \in 1..Len(filenames) :
          (filenames[k].exists /\ ~GoodTag(filenames[k])) =>
              readBinaryFile(host, filenames[k]) = << >>
    /\ mpc # "idle" =>
          Len(allData) <= Cardinality({k \in 1..(fk - 1) : GoodTag(filenames[k])})

\* C12 witness: of three files the second has the tag "XXXX" over the bytes of
\* a recorded file; the comparison ended with two data sets
C12_Witness ==
    /\ mpc = "done" /\ Len(filenames) = 3
    /\ filenames[2].exists /\ SubSeq(filenames[2].bytes, 1, 4) = << 88, 88, 88, 88 >>
    /\ Len(filenames[2].bytes) = HeaderSize + 8
    /\ Len(allData) = 2

\* the file opens, has the tag, a whole header and exactly the records of
\* four bytes its header declares
ValidSimpleFile(f) ==
    /\ GoodTag(f)
    /\ Len(f.bytes) >= HeaderSize
    /\ U32Value(host, SubSeq(f.bytes, 13, 16)) = 4
    /\ Len(f.bytes) = HeaderSize + 4 * U32Value(host, SubSeq(f.bytes, 17, 20))

\* C13 (as stated): when of three or more files at least one does not open or
\* is not valid, at any place in the list, and two or more valid files of one
\* element count remain, compareFiles skips the invalid ones and completes:
\* it does not stop early, and its summary has one row per valid file after
\* the baseline, each row counting every element of the baseline.
C13_InvalidFileSkipped ==
    LET valid == {k \in 1..Len(filenames) : ValidSimpleFile(filenames[k])}
    IN  ( /\ Len(filenames) >= 3
          /\ Cardinality(valid) >= 2
          /\ Cardinality(valid) < Len(filenames)
          /\ \A k \in valid, l \in valid : Len(filenames[k].bytes) = Len(filenames[l].bytes) )
        => /\ mpc \notin {"crashed", "skipped"}
           /\ mpc = "done" =>
                 /\ Len(summary) = Cardinality(valid) - 1
                 /\ \A r \in 1..Len(summary) :
                       summary[r].exact + summary[r].differences = Len(allData[1])

\* what a reading of the files of type t finds: those that open, and among
\* them those with the tag, a whole header and all the records it declares
OpensOf(t) == {j \in 1..Len(disk[t]) : disk[t][j].exists}
ValidOf(t) ==
    {j \in OpensOf(t) :
        LET b == disk[t][j].bytes
        IN  /\ GoodTag(disk[t][j])
            /\ Len(b) >= HeaderSize
            /\ U32Value(host, SubSeq(b, 17, 20)) > 0
            /\ Len(b) >= HeaderSize + U32Value(host, SubSeq(b, 13, 16)) * U32Value(host, SubSeq(b, 17, 20))}

\* C14: compareAllTypes visits the six types in their order, one record of
\* output each; a type with fewer than two files found or fewer than two
\* validly read is skipped with no element compared, and the skip is followed
\* by the next type: the loop ends only after the sixth, and a type with
\* two valid files or more that is reached after a skipped one is compared.
C14_SkippedCategoryOnly ==
    apc # "idle" =>
        /\ \A k \in 1..Len(out) :
              /\ out[k].type = k
              /\ (Cardinality(OpensOf(k)) < 2 \/ Cardinality(ValidOf(k)) < 2) =>
                    (out[k].said \in {"Not enough valid files", "No valid data"} /\ ~out[k].compared)
              /\ Cardinality(ValidOf(k)) >= 2 => (out[k].said = "Summary" /\ out[k].compared)
        /\ apc \in {"collect", "compareFiles"} => ti = Len(out) + 1
        /\ apc = "done" => Len(out) = NumTypes
        /\ (apc = "compareFiles" /\ mpc = "skipped") =>
              (exactMatches = << >> /\ differences = << >> /\ printed = << >>)

\* C14 witness: the run ended; the second type was skipped by compareFiles
\* and the fifth by compareAllTypes, and the sixth was compared
C14_Witness ==
    /\ apc = "done"
    /\ out[2].said = "No valid data"
    /\ out[5].said = "Not enough valid files"
    /\ out[6].said = "Summary" /\ out[6].compared

----------------------------------------------------------------------------
(* Claims about the reader *)

\* what the header of the file read says, as the reading host sees it
DeclaredCount == U32Value(rdHost, SubSeq(rdFile.bytes, 17, 20))
DeclaredSize == U32Value(rdHost, SubSeq(rdFile.bytes, 13, 16))

\* the file holds the whole header and every record the header declares
HoldsAllRecords ==
    /\ rdFile.exists
    /\ Len(rdFile.bytes) >= HeaderSize
    /\ (DeclaredSize = 0 \/ DeclaredCount <= (Len(rdFile.bytes) - HeaderSize) \div DeclaredSize)

\* record i of the file (from 1), as bytes on disk
RecordOnDisk(i) ==
    SubSeq(rdFile.bytes, HeaderSize + (i - 1) * DeclaredSize + 1, HeaderSize + i * DeclaredSize)

\* C11: what readBinaryFile returns is empty or holds exactly the
\* header's elementCount elements, each of dataSize bytes and equal to its
\* record of the file; it is empty whenever the file ends before the header
\* and elementCount full records, so never a proper prefix of the records.
C11_EmptyOrAllElements ==
    rdpc = "returned" =>
        /\ ~HoldsAllRecords => rdData = << >>
        /\ rdData # << >> =>
              /\ Len(rdData) = DeclaredCount
              /\ \A i \in 1..Len(rdData) :
                    /\ rdData[i].dataSize = DeclaredSize
                    /\ rdData[i].rawData =
                          (IF rdHost = "little" THEN Reverse(RecordOnDisk(i)) ELSE RecordOnDisk(i))

\* C11 witness: a file of two 4-byte elements that ends two bytes into its
\* second record was read, and nothing was returned
C11_Witness ==
    /\ rdpc = "returned"
    /\ Len(rdFile.bytes) = HeaderSize + 6
    /\ SubSeq(rdFile.bytes, 1, 4) = << 83, 82, 69, 70 >>
    /\ DeclaredCount = 2 /\ DeclaredSize = 4
    /\ rdData = << >>

----------------------------------------------------------------------------
(* Claims about the FPU control functions *)

\* the flags an argument names
FlagsOf(e) ==
    CASE e = "FE_INVALID" -> {"FE_INVALID"}
      [] e = "FE_DENORMAL | FE_DIVBYZERO" -> {"FE_DENORMAL", "FE_DIVBYZERO"}
      [] e = "FE_ALL_EXCEPT" -> {"FE_INVALID", "FE_DENORMAL", "FE_DIVBYZERO",
                                 "FE_OVERFLOW", "FE_UNDERFLOW", "FE_INEXACT"}

\* the exception mask bit of a flag in the x87 control word (in MXCSR seven
\* bits higher), IM DM ZM OM UM PM, and its trap enable bit in the AArch64
\* FPCR, IOE IDE DZE OFE UFE IXE
MaskBit ==
    [FE_INVALID |-> 0, FE_DENORMAL |-> 1, FE_DIVBYZERO |-> 2,
     FE_OVERFLOW |-> 3, FE_UNDERFLOW |-> 4, FE_INEXACT |-> 5]
TrapBit ==
    [FE_INVALID |-> 8, FE_DENORMAL |-> 15, FE_DIVBYZERO |-> 9,
     FE_OVERFLOW |-> 10, FE_UNDERFLOW |-> 11, FE_INEXACT |-> 12]

\* the flags for which trapping is armed in the registers s of backend b
Armed(b, s) ==
    CASE b = "x87" -> {f \in DOMAIN MaskBit : MaskBit[f] \notin s.cw}
      [] b = "sse" -> {f \in DOMAIN MaskBit : MaskBit[f] + 7 \notin s.mxcsr}
      [] b = "soft" -> {f \in DOMAIN MaskBit : MaskBit[f] \in s.float_exception_realtraps}
      [] OTHER -> {f \in DOMAIN TrapBit : TrapBit[f] \in s.fpcr}

\* the rounding mode the registers s of backend b select: RC of the x87
\* control word and of MXCSR (01 down, 10 up), RMode of FPCR (01 up, 10 down)
Rounding(b, s) ==
    LET x86(rc) == CASE rc = {} -> "FE_TONEAREST" [] rc = {0} -> "FE_DOWNWARD"
                     [] rc = {1} -> "FE_UPWARD" [] OTHER -> "FE_TOWARDZERO"
    IN  CASE b = "x87" -> x86({i - 10 : i \in s.cw \cap {10, 11}})
          [] b = "sse" -> x86({i - 13 : i \in s.mxcsr \cap {13, 14}})
          [] b = "soft" ->
                (CASE s.float_rounding_mode = "float_round_down" -> "FE_DOWNWARD"
                   [] s.float_rounding_mode = "float_round_up" -> "FE_UPWARD"
                   [] s.float_rounding_mode = "float_round_to_zero" -> "FE_TOWARDZERO"
                   [] OTHER -> "FE_TONEAREST")
          [] OTHER ->
                (CASE s.fpcr \cap {22, 23} = {} -> "FE_TONEAREST"
                   [] s.fpcr \cap {22, 23} = {22} -> "FE_UPWARD"
                   [] s.fpcr \cap {22, 23} = {23} -> "FE_DOWNWARD"
                   [] OTHER -> "FE_TOWARDZERO")

\* the precision control field (PC of the x87 control word) and the denormal
\* flags (DAZ and FTZ of MXCSR, FZ of FPCR) of the registers s of backend b
Precision(b, s) == IF b \in {"x87", "sse"} THEN s.cw \cap {8, 9} ELSE {}
Denormals(b, s) ==
    CASE b = "sse" -> s.mxcsr \cap {6, 15}
      [] b \in {"neon", "arm64"} -> s.fpcr \cap {24}
      [] OTHER -> {}

\* C15: right after fesetround(m) with m one of the four modes, fegetround()
\* returns the value of m, on every backend and whatever the state before.
C15_GetRoundReturnsModeSet ==
    (call.op = "fesetround" /\ call.arg \in RoundModes) =>
        \A b \in DOMAIN fpu : fegetround(b, fpu[b]) = RoundValue(b, call.arg)

\* C16: fesetround with a value that is none of the four modes returns
\* non-zero and leaves every register as it was, on every backend.
C16_BadModeRejected ==
    (call.op = "fesetround" /\ call.arg \in NoRoundModes) =>
        \A b \in DOMAIN fpu : call.ret[b] # 0 /\ ~call.changed[b]

C18_ArmsExactlyTheFlags ==
    [][call'.op \in {"feraiseexcept", "feclearexcept"} =>
          \A b \in DOMAIN fpu :
              LET F == FlagsOf(call'.arg)
                  expected(armed) == IF call'.op = "feraiseexcept" THEN armed \cup F ELSE armed \ F
              IN  /\ Armed(b, fpu'[b]) = expected(Armed(b, fpu[b]))
                  /\ b = "sse" => Armed("x87", fpu'[b]) = expected(Armed("x87", fpu[b]))
                  /\ Rounding(b, fpu'[b]) = Rounding(b, fpu[b])
                  /\ Precision(b, fpu'[b]) = Precision(b, fpu[b])
                  /\ Denormals(b, fpu'[b]) = Denormals(b, fpu[b])]_vars

C20_BackendsAgree ==
    \A a \in DOMAIN fpu, b \in DOMAIN fpu :
        /\ {m \in RoundModes : RoundValue(a, m) = fegetround(a, fpu[a])}
             = {m \in RoundModes : RoundValue(b, m) = fegetround(b, fpu[b])}
        /\ Armed(a, fpu[a]) = Armed(b, fpu[b])

\* C21: streflop_init never returns for a combination that has no mapping:
\* a type other than Simple, Double and Extended on any backend, Extended on
\* ARM.
C21_UnmappedInitNeverReturns ==
    call.op = "streflop_init" =>
        \A b \in DOMAIN fpu :
            /\ call.arg \in {"Simple", "Double", "Extended"}
            /\ call.arg = "Extended" => b \notin {"neon", "arm64"}

\* C22: right after feholdexcept(envp), *envp holds every register of the
\* backend as it was before the call, no flag is armed, and the rounding mode
\* and the precision control are those from before the call.
C22_HoldSnapshotsThenDisarms ==
    call.op = "feholdexcept" =>
        \A b \in DOMAIN fpu :
            /\ CASE b = "x87" -> envp[b].x87_mode = atCapture[b].cw
                 [] b = "sse" -> /\ envp[b].x87_mode = atCapture[b].cw
                                 /\ envp[b].sse_mode = atCapture[b].mxcsr
                 [] b = "soft" ->
                       /\ envp[b].tininess = atCapture[b].float_detect_tininess
                       /\ envp[b].rounding_mode = atCapture[b].float_rounding_mode
                       /\ envp[b].exception_realtraps = atCapture[b].float_exception_realtraps
                 [] OTHER -> envp[b].fpcr = atCapture[b].fpcr
            /\ Armed(b, fpu[b]) = {}
            /\ b = "sse" => Armed("x87", fpu[b]) = {}
            /\ Rounding(b, fpu[b]) = Rounding(b, atCapture[b])
            /\ Precision(b, fpu[b]) = Precision(b, atCapture[b])

----------------------------------------------------------------------------
(* Claims about doTest and the FPU state *)

\* the statements of doTest in the order of the source, and where doTest is
DoTestOrder ==
    << "streflop_init", "arm", "basicHeader", "basic", "nanHeader", "denormal",
       "overflow", "minusInf", "disarm", "infTimesZero", "infMinusInf",
       "zeroByZero", "nanClose", "rearm", "libHeader", "lib", "done" >>
DoTestAt == CHOOSE k \in 1..Len(DoTestOrder) : DoTestOrder[k] = rpc

\* C23: what is in the three files (headers written, elements written,
\* closed or not) is determined by the statement doTest is at and its loop
\* counter alone: two runs at the same statement have written the same, whatever
\* values getFPCR and getMXCSR returned to them, and a run that reaches the end
\* has written 10000, 10005 and 10000 elements.
C23_WritesIndependentOfRegisters ==
    rpc \in {DoTestOrder[k] : k \in 1..Len(DoTestOrder)} =>
        LET at == DoTestAt
        IN  /\ rfile["basic"].written = (IF at < 4 THEN 0 ELSE IF at = 4 THEN ri ELSE 10000)
            /\ Len(rfile["basic"].headers) = (IF at < 4 THEN 0 ELSE 1)
            /\ rfile["basic"].closed = (at > 4)
            /\ rfile["nan"].written =
                  (CASE at < 6 -> 0
                     [] at = 6 -> ri
                     [] at = 7 -> 5000 + ri
                     [] at = 8 -> 10001
                     [] at \in {9, 10} -> 10002
                     [] at = 11 -> 10003
                     [] at = 12 -> 10004
                     [] OTHER -> 10005)
            /\ Len(rfile["nan"].headers) = (IF at < 6 THEN 0 ELSE 1)
            /\ rfile["nan"].closed = (at > 13)
            /\ rfile["lib"].written = (IF at < 16 THEN 0 ELSE IF at = 16 THEN ri ELSE 10000)
            /\ Len(rfile["lib"].headers) = (IF at < 16 THEN 0 ELSE 1)
            /\ rfile["lib"].closed = (at = 17)

\* C23 witness: a run that saw both registers change has reached the end
\* with all three files closed
C23_Witness ==
    /\ rpc = "done"
    /\ lastFPCR = 639 /\ lastMXCSR = 8096
    /\ \A f \in RecFiles : rfile[f].closed

----------------------------------------------------------------------------
(* Further claims about the comparator *)

\* C24: for two elements of one width, 4 or 8 bytes, that are no NaNs and
\* have the same sign bit, ulpDiff gives the same distance in both orders.
C24_UlpDiffSymmetric ==
    (AtPair /\ ~NaNPattern(PairA) /\ ~NaNPattern(PairB)
        /\ (PairA[1] >= 128) = (PairB[1] >= 128))
    => ulpDiff(PairA, PairB) = ulpDiff(PairB, PairA)

\* C24 witness: two different negative 8-byte numbers, the baseline the
\* smaller pattern, a finite distance apart
C24_Witness ==
    /\ AtPair
    /\ Len(PairA) = 8
    /\ ~NaNPattern(PairA) /\ ~NaNPattern(PairB)
    /\ PairA[1] >= 128 /\ PairB[1] >= 128
    /\ LexLess(PairA, PairB)
    /\ ulpDiff(PairA, PairB) \notin {Zeros(8), Int64Max}

\* C25: while compareFiles compares and when it has finished, the counters
\* of every compared data set j add up to the number of baseline elements
\* compared with it so far, at the end to the number of baseline elements:
\* every index adds one to exactly one counter of each compared data set.  The
\* baseline has no counts.  (compareFiles has the counters exactMatches and
\* differences; a near match is counted in exactMatches.)
C25_CountersAddUp ==
    mpc \in {"compare", "done"} =>
        /\ exactMatches[1] = 0 /\ differences[1] = 0
        /\ \A j \in 2..Len(allData) :
              exactMatches[j] + differences[j] =
                  (IF mpc = "done" THEN Len(allData[1])
                   ELSE (ci - 1) + (IF j < cj THEN 1 ELSE 0))
        /\ mpc = "done" =>
              \A r \in 1..Len(summary) :
                  summary[r].exact + summary[r].differences = Len(allData[1])

\* C25 witness: compareFiles has finished with two compared files of two
\* elements, one of them with one match and one difference
C25_Witness ==
    /\ mpc = "done"
    /\ Len(allData) = 3 /\ Len(allData[1]) = 2
    /\ exactMatches[2] = 1 /\ differences[2] = 1
    /\ exactMatches[3] + differences[3] = 2

\* the difference records written so far, flushed or not, and those of data set j
Records == logFile \o log
RecordsOf(j) == SelectSeq(Records, LAMBDA r : r.file = j - 1)

\* C26: when all data sets have the baseline's length and width (4 or 8),
\* the records of data set j are as many as its differences counter says,
\* their element indices ascend, and every record holds, besides the
\* element index, both values, both hex patterns and the difference.
C26_OneFullRecordPerDivergence ==
    (/\ mpc \in {"compare", "done"}
     /\ \A j \in 1..Len(allData) :
           /\ Len(allData[j]) = Len(allData[1])
           /\ \A i \in 1..Len(allData[j]) :
                 allData[j][i].dataSize \in {4, 8} /\ allData[j][i].dataSize = allData[1][1].dataSize)
    => \A j \in 2..Len(allData) :
          /\ Len(RecordsOf(j)) = differences[j]
          /\ \A k \in 1..(Len(RecordsOf(j)) - 1) : RecordsOf(j)[k].element < RecordsOf(j)[k + 1].element
          /\ \A k \in 1..Len(RecordsOf(j)) :
                {"values", "hex", "ulp"} \subseteq DOMAIN RecordsOf(j)[k].description

\* the positions in filenames of the files that are not skipped, in order:
\* data set j and header j were read from file Loaded[j]
Loaded ==
    SelectSeq([k \in 1..Len(filenames) |-> k],
              LAMBDA k : readBinaryFile(host, filenames[k]) # << >>)

\* C27: whatever files are skipped, the data size printed in line i of the
\* list of files is printed next to the name of the file header i was read
\* from, row j of the summary carries the name of the file data set j was
\* read from, and no header and no element past the end of headers or of a
\* data set is read.
C27_NamesHeadersDataAligned ==
    /\ mpc # "crashed"
    /\ mpc = "log" => Len(filenames) <= Len(headers)
    /\ (mpc = "compare" /\ ci <= Len(allData[1])) => ci <= Len(allData[cj])
    /\ \A i \in 1..Len(printed) : i <= Len(Loaded) /\ printed[i].name = Loaded[i]
    /\ mpc = "done" => \A r \in 1..Len(summary) : summary[r].name = Loaded[r + 1]

(***************************************************************************)
(* Further claims about the floating-point environment                     *)
(***************************************************************************)

\* C28: on the x87, SSE and software backends, once fegetenv, feholdexcept
\* or fesetenv has been called, FE_DFL_ENV holds in every field the control
\* state of the moment of the first such call, whatever is called later.
C28_DefaultEnvCapturedOnce ==
    atCapture # << >> =>
        \A b \in DOMAIN fpu \cap {"x87", "sse", "soft"} :
            LET dfl == FE_DFL_ENV[b]
                s == atCapture[b]
            IN  CASE b = "x87" -> dfl.x87_mode = s.cw
                  [] b = "sse" -> dfl.x87_mode = s.cw /\ dfl.sse_mode = s.mxcsr
                  [] OTHER -> /\ dfl.tininess = s.float_detect_tininess
                              /\ dfl.rounding_mode = s.float_rounding_mode
                              /\ dfl.exception_realtraps = s.float_exception_realtraps

\* C29: on the SSE backend the x87 control word and MXCSR, which select the
\* same traps and the same rounding mode at the start, still do so after
\* any sequence of calls with the arguments the enums name.
C29_SseRegistersInStep ==
    "sse" \in DOMAIN fpu =>
        /\ Armed("x87", fpu["sse"]) = Armed("sse", fpu["sse"])
        /\ Rounding("x87", fpu["sse"]) = Rounding("sse", fpu["sse"])

----------------------------------------------------------------------------
(* Further claims about doTest *)

\* C30: in doTest, for every type, nothing is written before streflop_init
\* has set the precision of the type and trapping of invalid operations is
\* armed; the trap is armed while the basic and the math-library values are
\* computed and disarmed while infinity*0, infinity-infinity and 0/0 are; no
\* operation raises SIGFPE, every statement short of the end can be taken,
\* and at the end all three files are closed.
C30_InvalidTrapOffAroundNaNs ==
    /\ rpc # "SIGFPE"
    /\ rpc \in {DoTestOrder[k] : k \in 1..Len(DoTestOrder)} =>
        LET at == DoTestAt
            armed(b) == "FE_INVALID" \in Armed(b, fpu[b])
        IN  /\ at < 3 => \A f \in RecFiles : rfile[f].written = 0 /\ rfile[f].headers = << >>
            /\ at >= 2 => \A b \in DOMAIN fpu \cap {"x87", "sse"} :
                            Precision(b, fpu[b]) = (CASE rtype = "Simple" -> {}
                                                      [] rtype = "Double" -> {9}
                                                      [] rtype = "Extended" -> {8, 9})
            /\ (at \in 3..9 \/ at >= 15) => \A b \in DOMAIN fpu : armed(b)
            /\ at \in 10..14 => \A b \in DOMAIN fpu : ~armed(b)
            /\ at < Len(DoTestOrder) => ENABLED doTest
            /\ at = Len(DoTestOrder) => \A f \in RecFiles : rfile[f].closed

\* C30 witness: on SSE, doTest<Double> has written the three NaNs with the
\* invalid trap disarmed in both registers and is about to arm it again
C30_Witness ==
    /\ rpc = "rearm" /\ rtype = "Double"
    /\ "sse" \in DOMAIN fpu
    /\ 0 \in fpu["sse"].cw /\ 7 \in fpu["sse"].mxcsr
    /\ rfile["nan"].written = 10005 /\ rfile["nan"].closed

====
